---- MODULE Spec2Model ----
(***************************************************************************)
(* Render-and-validate orchestration of the vision plugin service          *)
(* (src/src/index.ts): the two operations POST /validate and POST /render, *)
(* the artifact fetcher, the render supervisor with its timer, the image   *)
(* conversion, the backend selection and the response interpreter.         *)
(*                                                                         *)
(* One action is one run of JavaScript between two suspension points: the  *)
(* service is single threaded, so a handler runs from the event that       *)
(* resumes it to its next await.  The engine is a separate OS process and  *)
(* has actions of its own.                                                 *)
(***************************************************************************)
EXTENDS Integers, Sequences, FiniteSets, TLC

\* ------------------------------------------------------------- bounds

\* longest args.views list a RenderPreview request carries
MaxViews == 3
\* most frames of one request whose conversion fails while sharp is installed
MaxConversionErrors == 1
\* model time advances in steps of this many milliseconds
MsPerTick == 150000

\* ---------------------------------------------------- program constants

\* setTimeout(..., 300000) in renderWithBlender
RENDER_TIMEOUT_MS == 300000

ALLOWED_VIEWS == {"iso", "front", "back", "left", "right", "top", "bottom"}

\* Array.from(ALLOWED_VIEWS).join(', ')
ALLOWED_VIEW_LIST == "iso, front, back, left, right, top, bottom"

\* default value of renderWithBlender's views parameter
DefaultViews == <<"iso", "front", "right", "top", "bottom">>

WORK_DIR == "/tmp/vision-validate"

\* ------------------------------------------------------- JavaScript values

\* the JavaScript value undefined (a field the JSON body does not carry)
undefined == "<undefined>"

\* a reading of truthiness under which the empty string counts as given
Falsy_UndefinedOnly(x) == x = undefined

\* !x for the strings a request field can hold
Falsy(x) == x \in {undefined, ""}

\* a || b
JsOr(a, b) == IF Falsy(a) THEN b ELSE a

Range(s) == {s[i] : i \in DOMAIN s}

\* a promise or result slot nothing has been stored in yet
Pending == [pending |-> TRUE]

IsPending(x) == "pending" \in DOMAIN x

\* --------------------------------------------------------------- inputs

Requests == {"r1", "r2"}

Operations == {"validate", "render"}

PartInputs == {undefined, "", "bracket"}

MalformedUrl == "not a url"
GoodUrl == "https://store.example/artifacts/s/model.3mf"
UrlInputs == {undefined, MalformedUrl, GoodUrl}

SessionInputs == {undefined, "sess-1"}

\* strings a caller may put in args.views: three allowed names and one that
\* differs from an allowed name by case only
ViewInputs == {"front", "top", "iso", "TOP"}

SeqsUpTo(S, n) == UNION {[1..k -> S] : k \in 0..n}

\* args.views: absent, or a list of strings
ViewsInputs ==
    {[given |-> FALSE, list |-> <<>>]} \cup
    {[given |-> TRUE, list |-> l] : l \in SeqsUpTo(ViewInputs, MaxViews)}

KeyInputs(k) == {undefined, k}

\* HTTP statuses the artifact store answers with
FetchStatuses == {200, 404, 500}

\* a reading of response.ok that takes every status below 500 for a success
ResponseOk_Below500(status) == status >= 200 /\ status < 500

\* response.ok of node-fetch
ResponseOk(status) == status >= 200 /\ status < 300

StatusStr(status) ==
    CASE status = 200 -> "200"
      [] status = 404 -> "404"
      [] status = 429 -> "429"
      [] status = 500 -> "500"
      [] OTHER -> "???"

StatusText(status) ==
    CASE status = 200 -> "OK"
      [] status = 404 -> "Not Found"
      [] status = 429 -> "Too Many Requests"
      [] status = 500 -> "Internal Server Error"
      [] OTHER -> ""

\* ---------------------------------------------------------------- paths

\* path.join: empty segments are skipped, a segment that is not a string
\* raises ERR_INVALID_ARG_TYPE
PathJoinThrows(segs) == \E i \in DOMAIN segs : segs[i] = undefined

PathJoin(segs) == SelectSeq(segs, LAMBDA s : s # "")

\* path.basename(new URL(u).pathname); new URL raises on a malformed URL
UrlThrows(u) == u # GoodUrl

\* the whole URL taken as the file name
Basename_WholeUrl(u) == u


Basename(u) == IF u = GoodUrl THEN "model.3mf" ELSE ""

\* path.dirname of a joined path
Dirname(p) == SubSeq(p, 1, Len(p) - 1)

\* the template preview_${view}.png
PreviewName(view) ==
    CASE view = "iso" -> "preview_iso.png"
      [] view = "front" -> "preview_front.png"
      [] view = "back" -> "preview_back.png"
      [] view = "left" -> "preview_left.png"
      [] view = "right" -> "preview_right.png"
      [] view = "top" -> "preview_top.png"
      [] view = "bottom" -> "preview_bottom.png"
      [] OTHER -> "preview_?.png"

\* ------------------------------------------------------ ViewSetNormalizer

\* a loop that pushes every filtered name, seen or not
Dedup_KeepAll(list, seen) == list

RECURSIVE Dedup(_, _)
\* the loop over filtered with the seen set: first occurrences, in order
Dedup(list, seen) ==
    IF list = <<>> THEN <<>>
    ELSE IF Head(list) \in seen THEN Dedup(Tail(list), seen)
    ELSE <<Head(list)>> \o Dedup(Tail(list), seen \cup {Head(list)})

\* a normalizer that rejects the list when any entry is unrecognized
normalizeViews_Strict(requested) ==
    IF ~requested.given \/ Len(requested.list) = 0 THEN
        [views |-> <<>>,
         error |-> <<"views is required and must include at least one of: ",
                     ALLOWED_VIEW_LIST>>]
    ELSE IF \E i \in DOMAIN requested.list : requested.list[i] \notin ALLOWED_VIEWS THEN
        [views |-> <<>>,
         error |-> <<"No valid views provided. Allowed views: ",
                     ALLOWED_VIEW_LIST>>]
    ELSE [views |-> Dedup(requested.list, {})]


normalizeViews(requested) ==
    IF ~requested.given \/ Len(requested.list) = 0 THEN
        [views |-> <<>>,
         error |-> <<"views is required and must include at least one of: ",
                     ALLOWED_VIEW_LIST>>]
    ELSE LET filtered == SelectSeq(requested.list, LAMBDA v : v \in ALLOWED_VIEWS)
         IN  IF Len(filtered) = 0 THEN
                 [views |-> <<>>,
                  error |-> <<"No valid views provided. Allowed views: ",
                              ALLOWED_VIEW_LIST>>]
             ELSE [views |-> Dedup(filtered, {})]

\* ---------------------------------------------------------- ArtifactFetcher

\* the outcome fetch3mfFile returns on a response that is not ok
FetchHttpFailure(url, status) ==
    [success |-> FALSE,
     error |-> <<"HTTP ", StatusStr(status), " ", StatusText(status)>>,
     url |-> url,
     statusCode |-> status]

\* the outcome fetch3mfFile's catch block returns: the exception's message
FetchException(url, message) ==
    [success |-> FALSE, error |-> message, url |-> url]

FetchSuccess(url, localPath) ==
    [success |-> TRUE, localPath |-> localPath, url |-> url]

\* messages of the exceptions raised inside fetch3mfFile
InvalidUrlMessage == <<"Invalid URL">>
NetworkMessage(url) == <<"request to ", url, " failed, reason: connect ECONNREFUSED">>
BodyMessage == <<"Premature close">>
PathArgMessage ==
    <<"The path argument must be of type string. Received undefined">>
MkdirMessage(p) == <<"EACCES: permission denied, mkdir ">> \o p
WriteMessage(p) == <<"ENOSPC: no space left on device, write ">> \o p
ReadMessage(p) == <<"ENOENT: no such file or directory, open ">> \o p
SpawnMessage == <<"spawn ENOMEM">>

\* ---------------------------------------------------------- RenderSupervisor

\* the frames found on disk, last requested view first
ScanImages_Reversed(views, dir, onDisk) ==
    LET frame(v) == [name |-> PreviewName(v),
                     path |-> dir \o <<PreviewName(v)>>,
                     viewName |-> v]
        n == Len(views)
        all == [i \in DOMAIN views |-> frame(views[n + 1 - i])]
    IN  SelectSeq(all, LAMBDA img : img.path \in onDisk)

\* views.map(...).filter(img => fs.existsSync(img.path)) in the close handler
ScanImages(views, dir, onDisk) ==
    LET frame(v) == [name |-> PreviewName(v),
                     path |-> dir \o <<PreviewName(v)>>,
                     viewName |-> v]
        all == [i \in DOMAIN views |-> frame(views[i])]
    IN  SelectSeq(all, LAMBDA img : img.path \in onDisk)

\* a close handler that trusts the exit code
CloseOutcome_ByExitCode(views, dir, onDisk, code) ==
    LET images == ScanImages(views, dir, onDisk)
    IN  [success |-> code = 0 /\ Len(images) > 0, images |-> images]

\* what the close handler resolves the promise with; code is the exit code
CloseOutcome(views, dir, onDisk, code) ==
    LET images == ScanImages(views, dir, onDisk)
    IN  [success |-> Len(images) > 0, images |-> images]

\* what the timer callback resolves the promise with
TimeoutOutcome == [success |-> FALSE, images |-> <<>>]

\* an outcome that reports success with nothing rendered
AbsentOutcome_Success == [success |-> TRUE, images |-> <<>>]

\* what renderWithBlender returns when the geometry file does not exist
AbsentOutcome == [success |-> FALSE, images |-> <<>>]

\* the timer armed by setTimeout is due
TimerDue(elapsed) == elapsed * MsPerTick >= RENDER_TIMEOUT_MS

\* ------------------------------------------------------- ImagePostProcessor

\* a conversion that hands back an empty buffer when the facility fails
convertToJpeg_Empty(pngPath, facility) ==
    IF facility = "jpeg" THEN [encoding |-> "jpeg", of |-> pngPath]
    ELSE [encoding |-> "png", of |-> <<>>]

\* the buffer convertToJpeg returns: the JPEG encoding, or, when sharp is
\* missing or fails, the bytes of the PNG file as they are
convertToJpeg(pngPath, facility) ==
    IF facility = "jpeg" THEN [encoding |-> "jpeg", of |-> pngPath]
    ELSE [encoding |-> "png", of |-> pngPath]

\* what the conversion facility does for the n frames of one request, frame by
\* frame: "jpeg" (sharp converts), "png" (sharp is missing or fails, and the
\* catch block returns the file's bytes), "throws" (the catch block's
\* readFileSync fails too).  sharp is missing for every frame or for none.
ConversionRuns(n) ==
    {c \in [1..n -> {"jpeg", "png", "throws"}] :
        \/ \A i \in 1..n : c[i] = "png"
        \/ Cardinality({i \in 1..n : c[i] # "jpeg"}) <= MaxConversionErrors}

\* fs.readFileSync(img.path) of the preview handler
ReadPng(pngPath) == [encoding |-> "png", of |-> pngPath]

\* ------------------------------------------------------- ResponseInterpreter

\* the piece standing for a run of three backquotes
Fence == "<fence>"
Blank == " "
\* the piece standing for the text of a JSON object with the five verdict fields
ObjectText == "{verdict:pass,confidence:0.9,summary:ok,issues:[],recommendations:[]}"

\* raw backend texts, as sequences of lexical pieces
VisionTexts ==
    { <<ObjectText>>,
      <<Fence, "json", Blank, ObjectText, Blank, Fence>>,
      <<"Here is my review", Fence, ObjectText, Fence, "Thanks">>,
      <<"not json at all">>,
      <<>>,
      <<"null">>,
      <<"Review:", Fence, "not json at all", Fence, "Done">>,
      <<Fence, "javascript", Blank, ObjectText, Blank, Fence>> }

RECURSIVE IndexFrom(_, _, _)
\* least index >= i whose piece is x, or 0
IndexFrom(s, x, i) ==
    IF i > Len(s) THEN 0
    ELSE IF s[i] = x THEN i
    ELSE IndexFrom(s, x, i + 1)

RECURSIVE TrimLeft(_)
TrimLeft(s) == IF s # <<>> /\ Head(s) = Blank THEN TrimLeft(Tail(s)) ELSE s

RECURSIVE TrimRight(_)
TrimRight(s) ==
    IF s # <<>> /\ s[Len(s)] = Blank THEN TrimRight(SubSeq(s, 1, Len(s) - 1)) ELSE s

\* String.prototype.trim
Trim(s) == TrimRight(TrimLeft(s))

\* raw.match of a fence, an optional json tag, blanks, a lazy interior and a
\* closing fence: the interior of the first
\* fenced block, trimmed, when the text holds an opening and a closing fence
Candidate(raw) ==
    LET open == IndexFrom(raw, Fence, 1)
        close == IF open = 0 THEN 0 ELSE IndexFrom(raw, Fence, open + 1)
        from == IF open # 0 /\ open + 1 <= Len(raw) /\ raw[open + 1] = "json"
                     /\ open + 1 < close
                THEN open + 2 ELSE open + 1
    IN  IF close = 0 THEN raw ELSE Trim(SubSeq(raw, from, close - 1))

\* JSON.parse: an object, null, or an exception
JsonThrows(text) == Trim(text) \notin {<<ObjectText>>, <<"null">>}

JsonNull == [null |-> TRUE]

JsonParse(text) ==
    IF Trim(text) = <<ObjectText>> THEN
        [verdict |-> "pass", confidence |-> "0.9", summary |-> <<"ok">>,
         issues |-> <<>>, recommendations |-> <<>>]
    ELSE JsonNull

\* an interpreter whose fallback summary is the candidate, not the raw text
parseVisionResponse_CandidateSummary(raw) ==
    IF JsonThrows(Candidate(raw)) THEN
        [verdict |-> "unknown", confidence |-> "null", summary |-> Candidate(raw),
         issues |-> <<>>, recommendations |-> <<>>]
    ELSE JsonParse(Candidate(raw))


parseVisionResponse(raw) ==
    IF JsonThrows(Candidate(raw)) THEN
        [verdict |-> "unknown", confidence |-> "null", summary |-> raw,
         issues |-> <<>>, recommendations |-> <<>>]
    ELSE JsonParse(Candidate(raw))

NullFieldMessage == <<"Cannot read properties of null (reading verdict)">>

\* ------------------------------------------------------------ envelopes

\* the envelope of a missing required field
RequiredEnvelope(message) ==
    [ok |-> FALSE, tokensUsed |-> 0, artifacts |-> <<>>,
     result |-> [error |-> message], error |-> message]

\* the envelope RenderPreview answers an empty or invalid view list with
ViewsEnvelope(message) ==
    [ok |-> FALSE, tokensUsed |-> 0, artifacts |-> <<>>,
     result |-> [error |-> message, allowedViews |-> ALLOWED_VIEWS],
     error |-> message]

\* the template Failed to fetch 3MF: ${fetchResult.error} from ${fetchResult.url}
FetchErrorDetail(fr) == <<"Failed to fetch 3MF: ">> \o fr.error \o <<" from ", fr.url>>

\* JSON.stringify leaves out a property whose value is undefined
WithStatusCode(payload, fr) ==
    IF "statusCode" \in DOMAIN fr THEN payload @@ [statusCode |-> fr.statusCode]
    ELSE payload

ValidateFetchEnvelope(fr) ==
    [ok |-> FALSE, tokensUsed |-> 0, artifacts |-> <<>>,
     result |-> WithStatusCode([verdict |-> "error", error |-> FetchErrorDetail(fr),
                                url |-> fr.url], fr),
     error |-> FetchErrorDetail(fr)]

RenderFetchEnvelope(fr) ==
    [ok |-> FALSE, tokensUsed |-> 0, artifacts |-> <<>>,
     result |-> WithStatusCode([error |-> FetchErrorDetail(fr), url |-> fr.url], fr),
     error |-> FetchErrorDetail(fr)]

\* a render failure reported as a success without artifacts
ValidateRenderFailedEnvelope_Ok ==
    [ok |-> TRUE, tokensUsed |-> 0, artifacts |-> <<>>,
     result |-> [verdict |-> "error"]]


ValidateRenderFailedEnvelope ==
    [ok |-> FALSE, tokensUsed |-> 0, artifacts |-> <<>>,
     result |-> [verdict |-> "error", error |-> <<"Rendering failed">>],
     error |-> <<"Rendering failed">>]

\* a render-failure answer of /render worded like a caught exception
RenderRenderFailedEnvelope_Internal ==
    [ok |-> FALSE, tokensUsed |-> 0, artifacts |-> <<>>,
     result |-> [error |-> <<"Internal error">>],
     error |-> <<"Internal error">>]

RenderRenderFailedEnvelope ==
    [ok |-> FALSE, tokensUsed |-> 0, artifacts |-> <<>>,
     result |-> [error |-> <<"Rendering failed">>],
     error |-> <<"Rendering failed">>]

\* a no-key answer that drops the frames already converted
NoKeyEnvelope_Bare(arts) ==
    [ok |-> FALSE, tokensUsed |-> 0, artifacts |-> <<>>,
     result |-> [error |-> <<"No vision API key provided">>],
     error |-> <<"No vision API key provided">>]


NoKeyEnvelope(arts) ==
    [ok |-> FALSE, tokensUsed |-> 0, artifacts |-> arts,
     result |-> [error |-> <<"No vision API key provided">>],
     error |-> <<"No vision API key provided">>]

\* a catch block that answers without an error text
ValidateCatchEnvelope_Silent(message) ==
    [ok |-> FALSE, tokensUsed |-> 0, artifacts |-> <<>>,
     result |-> [error |-> message], error |-> <<>>]

\* the catch block of the /validate handler
ValidateCatchEnvelope(message) ==
    [ok |-> FALSE, tokensUsed |-> 0, artifacts |-> <<>>,
     result |-> [error |-> message], error |-> message]

\* the catch block of the /render handler
RenderCatchEnvelope(message) ==
    [ok |-> FALSE, tokensUsed |-> 0, artifacts |-> <<>>,
     result |-> [error |-> message], error |-> message]

ValidateSuccessEnvelope(part, arts, parsed, tokens) ==
    [ok |-> TRUE, tokensUsed |-> tokens, artifacts |-> arts,
     result |-> parsed @@ [validatedPart |-> part]]

\* a success envelope that reports one token per artifact
RenderSuccessEnvelope_Counted(part, arts, renderedViews, views) ==
    [ok |-> TRUE, tokensUsed |-> Len(arts), artifacts |-> arts,
     result |-> [renderedViews |-> renderedViews, part |-> part,
                 viewsRequested |-> views]]


RenderSuccessEnvelope(part, arts, renderedViews, views) ==
    [ok |-> TRUE, tokensUsed |-> 0, artifacts |-> arts,
     result |-> [renderedViews |-> renderedViews, part |-> part,
                 viewsRequested |-> views]]

\* the artifact /validate pushes for a frame
JpegArtifact(part, img, buffer) ==
    [name |-> <<part, "_", img.viewName, ".jpg">>, type |-> "image",
     base64 |-> buffer, mimeType |-> "image/jpeg"]

\* the artifact /render pushes for a frame
PngArtifact(part, img, buffer) ==
    [name |-> <<part, "_", img.viewName, ".png">>, type |-> "image",
     base64 |-> buffer, mimeType |-> "image/png"]

\* a rendered-view entry that names a .jpg file, as the artifact loop of the
\* first /render handler does
RenderedView_Jpg(part, img) ==
    [view |-> img.viewName, file |-> <<part, "_", img.viewName, ".jpg">>]

\* the renderedViews entry /render pushes for a frame
RenderedView(part, img) ==
    [view |-> img.viewName, file |-> <<part, "_", img.viewName, ".png">>]

\* ---------------------------------------------------------------- state

VARIABLES
    alive,         \* the service process is running
    ambient,       \* process.env: the ambient backend keys
    files,         \* paths of the files on disk
    dirs,          \* paths of the directories on disk
    pc,            \* per request: where its handler is suspended
    req,           \* per request: the body received
    local,         \* per request: the handler's views, outputDir, artifacts
    fetchResult,   \* per request: what fetch3mfFile returned
    renderResult,  \* per request: what the render promise was resolved with
    proc,          \* per request: the engine process it spawned and its timer
    vision,        \* per request: the backend calls made
    response,      \* per request: the envelopes written to res
    io             \* per request: log of the effects attempted, the status
                   \* the store answered with, the exceptions caught

vars == <<alive, ambient, files, dirs, pc, req, local, fetchResult, renderResult,
          proc, vision, response, io>>

\* exit code null: the process was ended by a signal
NullCode == -1

NoViews == [given |-> FALSE, list |-> <<>>]

NoKeys == [OPENAI_API_KEY |-> undefined, GEMINI_API_KEY |-> undefined]

NoRequest ==
    [op |-> "none", part |-> undefined, artifact3mfUrl |-> undefined,
     sessionId |-> undefined, views |-> NoViews, apiKeys |-> NoKeys]

NoLocal ==
    [views |-> <<>>, outputDir |-> <<>>, artifacts |-> <<>>, visionResult |-> Pending]

NoProc ==
    [state |-> "none", timer |-> "none", elapsed |-> 0, signalled |-> FALSE,
     code |-> NullCode, views |-> <<>>, dir |-> <<>>]

NoIo ==
    [fetches |-> 0, writes |-> 0, spawns |-> 0, signals |-> 0, removals |-> 0,
     status |-> 0, backendStatus |-> 0, caught |-> <<>>]

\* Date.now() when the output directory is named
Stamps == {"render_1700000000000"}

\* a view the engine may write a file for although it was not asked to
StrayView == "left"

ExitCodes == {0, 1}

BackendStatuses == {200, 429, 500}

TokenCounts == {0, 1500}

GeminiUrl == "https://generativelanguage.googleapis.com/v1beta/models/gemini-3-pro-preview:generateContent"

Init ==
    /\ alive = TRUE
    /\ ambient \in [OPENAI_API_KEY : KeyInputs("env-openai-key"),
                    GEMINI_API_KEY : KeyInputs("env-gemini-key")]
    /\ files = {}
    /\ dirs = {<<WORK_DIR>>}
    /\ pc = [r \in Requests |-> "idle"]
    /\ req = [r \in Requests |-> NoRequest]
    /\ local = [r \in Requests |-> NoLocal]
    /\ fetchResult = [r \in Requests |-> Pending]
    /\ renderResult = [r \in Requests |-> Pending]
    /\ proc = [r \in Requests |-> NoProc]
    /\ vision = [r \in Requests |-> <<>>]
    /\ response = [r \in Requests |-> <<>>]
    /\ io = [r \in Requests |-> NoIo]

\* a handler that writes its envelope twice
Respond_Twice(r, envelope) ==
    /\ response' = [response EXCEPT ![r] = Append(Append(@, envelope), envelope)]
    /\ pc' = [pc EXCEPT ![r] = "done"]

\* res.json(envelope); the handler returns or falls through to its end
Respond(r, envelope) ==
    /\ response' = [response EXCEPT ![r] = Append(@, envelope)]
    /\ pc' = [pc EXCEPT ![r] = "done"]

\* ------------------------------------------------- fetch3mfFile, in stages

\* a fetcher that lets the URL constructor's exception reach the handler's
\* catch block
fetch3mfFile_Raises(r, artifact3mfUrl) ==
    IF UrlThrows(artifact3mfUrl) THEN
        /\ Respond(r, [ok |-> FALSE, tokensUsed |-> 0, artifacts |-> <<>>,
                       result |-> [error |-> InvalidUrlMessage],
                       error |-> InvalidUrlMessage])
        /\ io' = [io EXCEPT ![r].caught = Append(@, InvalidUrlMessage)]
        /\ UNCHANGED fetchResult
    ELSE
        /\ io' = [io EXCEPT ![r].fetches = @ + 1]
        /\ pc' = [pc EXCEPT ![r] = "awaitFetch"]
        /\ UNCHANGED <<response, fetchResult>>

\* from the call to the await of fetch: new URL, the headers, the request
fetch3mfFile(r, artifact3mfUrl) ==
    IF UrlThrows(artifact3mfUrl) THEN
        /\ fetchResult' = [fetchResult EXCEPT
                              ![r] = FetchException(artifact3mfUrl, InvalidUrlMessage)]
        /\ pc' = [pc EXCEPT ![r] = "fetched"]
        /\ UNCHANGED <<response, io>>
    ELSE
        /\ io' = [io EXCEPT ![r].fetches = @ + 1]
        /\ pc' = [pc EXCEPT ![r] = "awaitFetch"]
        /\ UNCHANGED <<response, fetchResult>>

\* the store answers, or the transport fails
FetchResponds(r) ==
    /\ alive
    /\ pc[r] = "awaitFetch"
    /\ \E outcome \in FetchStatuses \cup {-1} :
         LET url == req[r].artifact3mfUrl IN
         IF outcome = -1 THEN
             /\ fetchResult' = [fetchResult EXCEPT
                                   ![r] = FetchException(url, NetworkMessage(url))]
             /\ pc' = [pc EXCEPT ![r] = "fetched"]
             /\ UNCHANGED io
         ELSE IF ~ResponseOk(outcome) THEN
             /\ fetchResult' = [fetchResult EXCEPT ![r] = FetchHttpFailure(url, outcome)]
             /\ pc' = [pc EXCEPT ![r] = "fetched"]
             /\ io' = [io EXCEPT ![r].status = outcome]
         ELSE
             /\ pc' = [pc EXCEPT ![r] = "awaitBody"]
             /\ io' = [io EXCEPT ![r].status = outcome]
             /\ UNCHANGED fetchResult
    /\ UNCHANGED <<alive, ambient, files, dirs, req, local, renderResult, proc,
                   vision, response>>

\* the body arrives (or the download fails) and is written under the session
FetchBody(r) ==
    /\ alive
    /\ pc[r] = "awaitBody"
    /\ \E body \in {"ok", "throws"}, mk \in {"ok", "throws"}, wr \in {"ok", "throws"} :
         LET url == req[r].artifact3mfUrl
             segs == <<WORK_DIR, req[r].sessionId, Basename(url)>>
             localPath == PathJoin(segs)
             fail(message) ==
                 fetchResult' = [fetchResult EXCEPT ![r] = FetchException(url, message)]
         IN
         IF body = "throws" THEN
             /\ fail(BodyMessage)
             /\ UNCHANGED <<files, dirs, io>>
         ELSE IF PathJoinThrows(segs) THEN
             /\ fail(PathArgMessage)
             /\ UNCHANGED <<files, dirs, io>>
         ELSE IF mk = "throws" THEN
             /\ fail(MkdirMessage(Dirname(localPath)))
             /\ io' = [io EXCEPT ![r].writes = @ + 1]
             /\ UNCHANGED <<files, dirs>>
         ELSE IF wr = "throws" THEN
             /\ fail(WriteMessage(localPath))
             /\ dirs' = dirs \cup {Dirname(localPath)}
             /\ io' = [io EXCEPT ![r].writes = @ + 2]
             /\ UNCHANGED files
         ELSE
             /\ fetchResult' = [fetchResult EXCEPT ![r] = FetchSuccess(url, localPath)]
             /\ dirs' = dirs \cup {Dirname(localPath)}
             /\ files' = files \cup {localPath}
             /\ io' = [io EXCEPT ![r].writes = @ + 2]
    /\ pc' = [pc EXCEPT ![r] = "fetched"]
    /\ UNCHANGED <<alive, ambient, req, local, renderResult, proc, vision, response>>

\* something outside the service removes the downloaded file
GeometryRemoved(r) ==
    /\ pc[r] = "fetched"
    /\ fetchResult[r].success
    /\ fetchResult[r].localPath \in files
    /\ files' = files \ {fetchResult[r].localPath}
    /\ UNCHANGED <<alive, ambient, dirs, pc, req, local, fetchResult, renderResult,
                   proc, vision, response, io>>

\* ---------------------------------------------------- renderWithBlender

\* a catch block that reports the tokens of a typical backend call
CatchEnvelope_Billed(op, message) ==
    [ok |-> FALSE, tokensUsed |-> 1500, artifacts |-> <<>>,
     result |-> [error |-> message], error |-> message]

\* the catch block of the handler that runs operation op
CatchEnvelope(op, message) ==
    IF op = "validate" THEN ValidateCatchEnvelope(message)
    ELSE RenderCatchEnvelope(message)

\* a catch block that answers with a fixed text instead of error.message
Catch_FixedText(r, op, message, log) ==
    /\ Respond(r, CatchEnvelope(op, <<"Internal server error">>))
    /\ io' = [io EXCEPT ![r] = [log EXCEPT !.caught = Append(@, message)]]

\* an exception reaches the handler's catch block, which answers; sets pc,
\* response and io
Catch(r, op, message, log) ==
    /\ Respond(r, CatchEnvelope(op, message))
    /\ io' = [io EXCEPT ![r] = [log EXCEPT !.caught = Append(@, message)]]

\* an exception raised before the promise exists, or inside its executor,
\* rejects the await in the handler of operation op, whose catch block answers
renderWithBlender(r, model3mfPath, outputDir, views, op) ==
    \E mk \in {"ok", "throws"}, sp \in {"started", "throws", "ENOENT"} :
        IF model3mfPath \notin files THEN
            /\ renderResult' = [renderResult EXCEPT ![r] = AbsentOutcome]
            /\ pc' = [pc EXCEPT ![r] = "rendered"]
            /\ UNCHANGED <<alive, dirs, proc, response, io>>
        ELSE IF mk = "throws" THEN
            /\ Catch(r, op, MkdirMessage(outputDir),
                     [io[r] EXCEPT !.writes = @ + 1])
            /\ UNCHANGED <<alive, dirs, proc, renderResult>>
        ELSE IF sp = "throws" THEN
            /\ Catch(r, op, SpawnMessage,
                     [io[r] EXCEPT !.writes = @ + 1, !.spawns = @ + 1])
            /\ dirs' = dirs \cup {outputDir}
            /\ UNCHANGED <<alive, proc, renderResult>>
        ELSE
            /\ dirs' = dirs \cup {outputDir}
            /\ io' = [io EXCEPT ![r].writes = @ + 1, ![r].spawns = @ + 1]
            /\ pc' = [pc EXCEPT ![r] = "awaitRender"]
            /\ IF sp = "ENOENT" THEN
                   \* no process starts; the child object emits 'error' on the
                   \* next tick, no listener is registered for it, and the
                   \* uncaught exception ends the service
                   /\ alive' = FALSE
                   /\ proc' = [proc EXCEPT ![r] =
                          [NoProc EXCEPT !.state = "failed", !.timer = "armed",
                                         !.views = views, !.dir = outputDir]]
               ELSE
                   /\ alive' = alive
                   /\ proc' = [proc EXCEPT ![r] =
                          [NoProc EXCEPT !.state = "running", !.timer = "armed",
                                         !.views = views, !.dir = outputDir]]
            /\ UNCHANGED <<renderResult, response>>

\* a promise that takes every outcome it is given, the last one winning
Resolve_LastWins(r, outcome) ==
    /\ renderResult' = [renderResult EXCEPT ![r] = outcome]
    /\ IF IsPending(renderResult[r])
       THEN pc' = [pc EXCEPT ![r] = "rendered"]
       ELSE UNCHANGED pc

\* resolve(outcome): settles the promise the handler awaits, once
Resolve(r, outcome) ==
    IF IsPending(renderResult[r]) THEN
        /\ renderResult' = [renderResult EXCEPT ![r] = outcome]
        /\ pc' = [pc EXCEPT ![r] = "rendered"]
    ELSE UNCHANGED <<renderResult, pc>>

\* the engine writes the image of one view into the output directory
EngineWrites(r) ==
    /\ proc[r].state = "running"
    /\ proc[r].dir \in dirs
    /\ \E v \in Range(proc[r].views) \cup {StrayView} :
         /\ proc[r].dir \o <<PreviewName(v)>> \notin files
         /\ files' = files \cup {proc[r].dir \o <<PreviewName(v)>>}
    /\ UNCHANGED <<alive, ambient, dirs, pc, req, local, fetchResult, renderResult,
                   proc, vision, response, io>>

\* time passes while the timer is armed and not yet due (elapsed is the age
\* of the armed timer; a cleared or fired timer has none)
Tick(r) ==
    /\ alive
    /\ proc[r].timer = "armed"
    /\ ~TimerDue(proc[r].elapsed)
    /\ proc' = [proc EXCEPT ![r].elapsed = @ + 1]
    /\ UNCHANGED <<alive, ambient, files, dirs, pc, req, local, fetchResult,
                   renderResult, vision, response, io>>

\* a timer callback that scans the output directory as the close handler does
TimerFires_Scanning(r) ==
    /\ alive
    /\ proc[r].timer = "armed"
    /\ TimerDue(proc[r].elapsed)
    /\ proc' = [proc EXCEPT ![r].timer = "fired", ![r].elapsed = 0,
                            ![r].signalled = TRUE]
    /\ io' = [io EXCEPT ![r].signals = @ + 1]
    /\ Resolve(r, CloseOutcome(proc[r].views, proc[r].dir, files, NullCode))
    /\ UNCHANGED <<alive, ambient, files, dirs, req, local, fetchResult, vision,
                   response>>

\* a timer callback that signals the engine and leaves the outcome to the
\* close handler
TimerFires_SignalOnly(r) ==
    /\ alive
    /\ proc[r].timer = "armed"
    /\ TimerDue(proc[r].elapsed)
    /\ proc' = [proc EXCEPT ![r].timer = "fired", ![r].elapsed = 0,
                            ![r].signalled = TRUE]
    /\ io' = [io EXCEPT ![r].signals = @ + 1]
    /\ UNCHANGED <<renderResult, pc>>
    /\ UNCHANGED <<alive, ambient, files, dirs, req, local, fetchResult, vision,
                   response>>

\* the setTimeout callback: proc.kill('SIGTERM'), then resolve
TimerFires(r) ==
    /\ alive
    /\ proc[r].timer = "armed"
    /\ TimerDue(proc[r].elapsed)
    /\ proc' = [proc EXCEPT ![r].timer = "fired", ![r].elapsed = 0,
                            ![r].signalled = TRUE]
    /\ io' = [io EXCEPT ![r].signals = @ + 1]
    /\ Resolve(r, TimeoutOutcome)
    /\ UNCHANGED <<alive, ambient, files, dirs, req, local, fetchResult, vision,
                   response>>

\* the engine process ends; the close handler clears the timer, scans the
\* output directory and resolves
ProcCloses(r) ==
    /\ proc[r].state = "running"
    /\ \E code \in ExitCodes \cup {NullCode} :
         /\ code = NullCode => proc[r].signalled
         /\ IF alive THEN
                /\ proc' = [proc EXCEPT
                       ![r].state = "closed",
                       ![r].code = code,
                       ![r].timer = IF @ = "armed" THEN "cleared" ELSE @,
                       ![r].elapsed = 0]
                /\ Resolve(r, CloseOutcome(proc[r].views, proc[r].dir, files, code))
            ELSE
                /\ proc' = [proc EXCEPT ![r].state = "closed", ![r].code = code]
                /\ UNCHANGED <<renderResult, pc>>
    /\ UNCHANGED <<alive, ambient, files, dirs, req, local, fetchResult, vision,
                   response, io>>

\* a removal that takes the directory entry and leaves the frames
Cleanup_DirectoryOnly(r, outputDir, removed) ==
    /\ io' = [io EXCEPT ![r].removals = @ + 1]
    /\ IF removed THEN
           /\ dirs' = dirs \ {outputDir}
           /\ UNCHANGED files
       ELSE UNCHANGED <<dirs, files>>

\* fs.rmSync(outputDir, {recursive, force}) inside try/catch: the directory and
\* what is under it go, or the removal fails and nothing is reported
Cleanup(r, outputDir, removed) ==
    /\ io' = [io EXCEPT ![r].removals = @ + 1]
    /\ IF removed THEN
           /\ dirs' = dirs \ {outputDir}
           /\ files' = {f \in files : Dirname(f) # outputDir}
       ELSE UNCHANGED <<dirs, files>>

\* ------------------------------------------------------- POST /validate

\* a views field in the body of a /validate request; the handler never reads it
ValidateViewsInputs == {NoViews, [given |-> TRUE, list |-> <<"back", "left">>]}

\* the views the request names, when it names any
ValidateViews_Requested(r) ==
    IF req[r].views.given THEN req[r].views.list ELSE DefaultViews

\* renderWithBlender(localPath, outputDir): the views parameter is left to its
\* default
ValidateViews(r) == DefaultViews

\* from the request to the await of fetch3mfFile
ValidateStartFrom(r, sessions) ==
    /\ alive
    /\ pc[r] = "idle"
    /\ \E part \in PartInputs, url \in UrlInputs, sid \in sessions,
          okey \in KeyInputs("req-openai-key"), gkey \in KeyInputs("req-gemini-key"),
          bodyViews \in ValidateViewsInputs :
         /\ req' = [req EXCEPT ![r] =
                [op |-> "validate", part |-> part, artifact3mfUrl |-> url,
                 sessionId |-> sid, views |-> bodyViews,
                 apiKeys |-> [OPENAI_API_KEY |-> okey, GEMINI_API_KEY |-> gkey]]]
         /\ IF Falsy(part) THEN
                /\ Respond(r, RequiredEnvelope(<<"part is required">>))
                /\ UNCHANGED <<fetchResult, io>>
            ELSE IF Falsy(url) THEN
                /\ Respond(r, RequiredEnvelope(<<"artifact3mfUrl is required">>))
                /\ UNCHANGED <<fetchResult, io>>
            ELSE fetch3mfFile(r, url)
    /\ UNCHANGED <<alive, ambient, files, dirs, local, renderResult, proc, vision>>

\* a /validate request arrives
ValidateStart(r) == ValidateStartFrom(r, SessionInputs)

\* from the return of fetch3mfFile to the await of renderWithBlender
ValidateAfterFetch(r) ==
    /\ alive
    /\ pc[r] = "fetched"
    /\ req[r].op = "validate"
    /\ IF ~fetchResult[r].success THEN
           /\ Respond(r, ValidateFetchEnvelope(fetchResult[r]))
           /\ UNCHANGED <<alive, dirs, local, renderResult, proc, io>>
       ELSE \E now \in Stamps :
           LET outputDir == PathJoin(<<WORK_DIR, req[r].sessionId, now>>) IN
           /\ local' = [local EXCEPT ![r].outputDir = outputDir,
                                     ![r].views = ValidateViews(r)]
           /\ renderWithBlender(r, fetchResult[r].localPath, outputDir,
                                ValidateViews(r), "validate")
    /\ UNCHANGED <<ambient, files, req, fetchResult, vision>>

\* from the render outcome to the backend call: the conversion loop and the
\* choice of the backend
ValidateAfterRender(r) ==
    /\ alive
    /\ pc[r] = "rendered"
    /\ req[r].op = "validate"
    /\ LET rr == renderResult[r] IN
       IF ~rr.success \/ Len(rr.images) = 0 THEN
           /\ Respond(r, ValidateRenderFailedEnvelope)
           /\ UNCHANGED <<local, vision, io>>
       ELSE \E run \in ConversionRuns(Len(rr.images)) :
           LET \* sharp and the fallback read both fail on a file that is gone
               conv == [i \in DOMAIN run |->
                           IF rr.images[i].path \in files THEN run[i]
                           ELSE "throws"]
               thrown == {i \in DOMAIN conv : conv[i] = "throws"}
               first == CHOOSE i \in thrown : \A j \in thrown : i <= j
               arts == [i \in DOMAIN rr.images |->
                           JpegArtifact(req[r].part, rr.images[i],
                                        convertToJpeg(rr.images[i].path, conv[i]))]
               openaiKey == JsOr(req[r].apiKeys.OPENAI_API_KEY, ambient.OPENAI_API_KEY)
               geminiKey == JsOr(req[r].apiKeys.GEMINI_API_KEY, ambient.GEMINI_API_KEY)
               call(provider, key) ==
                   /\ vision' = [vision EXCEPT ![r] =
                          Append(@, [provider |-> provider, key |-> key,
                                     images |-> [i \in DOMAIN arts |-> arts[i].base64]])]
                   /\ pc' = [pc EXCEPT ![r] = "awaitVision"]
                   /\ UNCHANGED <<response, io>>
           IN
           IF thrown # {} THEN
               /\ Catch(r, "validate", ReadMessage(rr.images[first].path), io[r])
               /\ UNCHANGED <<local, vision>>
           ELSE
               /\ local' = [local EXCEPT ![r].artifacts = arts]
               /\ IF ~Falsy(geminiKey) THEN call("gemini", geminiKey)
                  ELSE IF ~Falsy(openaiKey) THEN call("openai", openaiKey)
                  ELSE /\ Respond(r, NoKeyEnvelope(arts))
                       /\ UNCHANGED <<vision, io>>
    /\ UNCHANGED <<alive, ambient, files, dirs, req, fetchResult, renderResult,
                   proc>>

\* a handler that removes the output directory before answering and reports
\* a removal that failed
ValidateFinish_CleanupFirst(r, text, tokensUsed) ==
    LET parsed == parseVisionResponse(text) IN
    /\ local' = [local EXCEPT
                    ![r].visionResult = [text |-> text, tokensUsed |-> tokensUsed]]
    /\ IF parsed = JsonNull THEN
        /\ Catch(r, "validate", NullFieldMessage, io[r])
        /\ UNCHANGED <<files, dirs>>
       ELSE \E removed \in BOOLEAN :
        IF removed THEN
            /\ Respond(r, ValidateSuccessEnvelope(req[r].part, local[r].artifacts,
                                                  parsed, tokensUsed))
            /\ Cleanup(r, local[r].outputDir, TRUE)
        ELSE
            /\ Respond(r, CatchEnvelope("validate",
                                        MkdirMessage(local[r].outputDir)))
            /\ io' = [io EXCEPT ![r].removals = @ + 1]
            /\ UNCHANGED <<files, dirs>>

\* from the backend's text to the end of the handler: parse, answer, clean up
ValidateFinish(r, text, tokensUsed) ==
    LET parsed == parseVisionResponse(text) IN
    /\ local' = [local EXCEPT
                    ![r].visionResult = [text |-> text, tokensUsed |-> tokensUsed]]
    /\ IF parsed = JsonNull THEN
        /\ Catch(r, "validate", NullFieldMessage, io[r])
        /\ UNCHANGED <<files, dirs>>
       ELSE
        /\ Respond(r, ValidateSuccessEnvelope(req[r].part, local[r].artifacts,
                                              parsed, tokensUsed))
        /\ \E removed \in BOOLEAN : Cleanup(r, local[r].outputDir, removed)

\* a handler that turns to the other backend when the first one fails
GeminiResponds_Fallback(r) ==
    /\ alive
    /\ pc[r] = "awaitVision"
    /\ vision[r][Len(vision[r])].provider = "gemini"
    /\ \E outcome \in BackendStatuses \cup {-1}, text \in VisionTexts,
          tokensUsed \in TokenCounts :
         IF outcome = -1 \/ ~ResponseOk(outcome) THEN
             /\ vision' = [vision EXCEPT ![r] =
                    Append(@, [provider |-> "openai",
                               key |-> JsOr(req[r].apiKeys.OPENAI_API_KEY,
                                            ambient.OPENAI_API_KEY),
                               images |-> vision[r][1].images])]
             /\ UNCHANGED <<pc, response, io, files, dirs, local>>
         ELSE
             /\ ValidateFinish(r, text, tokensUsed)
             /\ UNCHANGED vision
    /\ UNCHANGED <<alive, ambient, req, fetchResult, renderResult, proc>>

\* callGeminiVision returns or throws
GeminiResponds(r) ==
    /\ alive
    /\ pc[r] = "awaitVision"
    /\ vision[r][Len(vision[r])].provider = "gemini"
    /\ \E outcome \in BackendStatuses \cup {-1}, text \in VisionTexts,
          tokensUsed \in TokenCounts :
         IF outcome = -1 THEN
             /\ Catch(r, "validate", NetworkMessage(GeminiUrl), io[r])
             /\ UNCHANGED <<files, dirs, local>>
         ELSE IF ~ResponseOk(outcome) THEN
             /\ Catch(r, "validate", <<"Gemini API error: ", StatusStr(outcome)>>,
                      [io[r] EXCEPT !.backendStatus = outcome])
             /\ UNCHANGED <<files, dirs, local>>
         ELSE ValidateFinish(r, text, tokensUsed)
    /\ UNCHANGED <<alive, ambient, req, fetchResult, renderResult, proc, vision>>

\* callOpenAIVision returns or throws
OpenAIResponds(r) ==
    /\ alive
    /\ pc[r] = "awaitVision"
    /\ vision[r][Len(vision[r])].provider = "openai"
    /\ \E outcome \in BackendStatuses \cup {-1}, text \in VisionTexts,
          tokensUsed \in TokenCounts :
         IF outcome = -1 THEN
             /\ Catch(r, "validate", <<"Connection error.">>, io[r])
             /\ UNCHANGED <<files, dirs, local>>
         ELSE IF ~ResponseOk(outcome) THEN
             /\ Catch(r, "validate", <<StatusStr(outcome), " status code (no body)">>,
                      [io[r] EXCEPT !.backendStatus = outcome])
             /\ UNCHANGED <<files, dirs, local>>
         ELSE ValidateFinish(r, text, tokensUsed)
    /\ UNCHANGED <<alive, ambient, req, fetchResult, renderResult, proc, vision>>

\* --------------------------------------------------------- POST /render

\* from the request to the await of fetch3mfFile
RenderStartFrom(r, sessions) ==
    /\ alive
    /\ pc[r] = "idle"
    /\ \E part \in PartInputs, requestedViews \in ViewsInputs, url \in UrlInputs,
          sid \in sessions :
         LET normalized == normalizeViews(requestedViews)
             viewError == "error" \in DOMAIN normalized
             msg == IF viewError THEN normalized.error
                    ELSE <<"views is required and must include at least one of: ",
                           ALLOWED_VIEW_LIST>>
         IN
         /\ req' = [req EXCEPT ![r] =
                [op |-> "render", part |-> part, artifact3mfUrl |-> url,
                 sessionId |-> sid, views |-> requestedViews, apiKeys |-> NoKeys]]
         /\ local' = [local EXCEPT ![r].views = normalized.views]
         /\ IF Falsy(part) THEN
                /\ Respond(r, RequiredEnvelope(<<"part is required">>))
                /\ UNCHANGED <<fetchResult, io>>
            ELSE IF viewError \/ Len(normalized.views) = 0 THEN
                /\ Respond(r, ViewsEnvelope(msg))
                /\ UNCHANGED <<fetchResult, io>>
            ELSE IF Falsy(url) THEN
                /\ Respond(r, RequiredEnvelope(<<"artifact3mfUrl is required">>))
                /\ UNCHANGED <<fetchResult, io>>
            ELSE IF Falsy(sid) THEN
                /\ Respond(r, RequiredEnvelope(<<"context.sessionId is required">>))
                /\ UNCHANGED <<fetchResult, io>>
            ELSE fetch3mfFile(r, url)
    /\ UNCHANGED <<alive, ambient, files, dirs, renderResult, proc, vision>>

\* a /render request arrives
RenderStart(r) == RenderStartFrom(r, SessionInputs)

\* from the return of fetch3mfFile to the await of renderWithBlender
RenderAfterFetch(r) ==
    /\ alive
    /\ pc[r] = "fetched"
    /\ req[r].op = "render"
    /\ IF ~fetchResult[r].success \/ "localPath" \notin DOMAIN fetchResult[r] THEN
           /\ Respond(r, RenderFetchEnvelope(fetchResult[r]))
           /\ UNCHANGED <<alive, dirs, local, renderResult, proc, io>>
       ELSE \E now \in Stamps :
           LET outputDir == PathJoin(<<WORK_DIR, req[r].sessionId, now>>) IN
           /\ local' = [local EXCEPT ![r].outputDir = outputDir]
           /\ renderWithBlender(r, fetchResult[r].localPath, outputDir,
                                local[r].views, "render")
    /\ UNCHANGED <<ambient, files, req, fetchResult, vision>>

\* from the render outcome to the end of the handler: read each frame,
\* answer, clean up
RenderAfterRender(r) ==
    /\ alive
    /\ pc[r] = "rendered"
    /\ req[r].op = "render"
    /\ LET rr == renderResult[r] IN
       IF ~rr.success \/ Len(rr.images) = 0 THEN
           /\ Respond(r, RenderRenderFailedEnvelope)
           /\ UNCHANGED <<local, files, dirs, io>>
       ELSE \E attempt \in [DOMAIN rr.images -> {"ok", "throws"}] :
           LET \* readFileSync fails on a file that is gone
               read == [i \in DOMAIN attempt |->
                           IF rr.images[i].path \in files THEN attempt[i]
                           ELSE "throws"]
               thrown == {i \in DOMAIN read : read[i] = "throws"}
               first == CHOOSE i \in thrown : \A j \in thrown : i <= j
               arts == [i \in DOMAIN rr.images |->
                           PngArtifact(req[r].part, rr.images[i],
                                       ReadPng(rr.images[i].path))]
               renderedViews == [i \in DOMAIN rr.images |->
                                    RenderedView(req[r].part, rr.images[i])]
           IN
           IF thrown # {} THEN
               /\ Catch(r, "render", ReadMessage(rr.images[first].path), io[r])
               /\ UNCHANGED <<local, files, dirs>>
           ELSE
               /\ local' = [local EXCEPT ![r].artifacts = arts]
               /\ Respond(r, RenderSuccessEnvelope(req[r].part, arts, renderedViews,
                                                   local[r].views))
               /\ \E removed \in BOOLEAN : Cleanup(r, local[r].outputDir, removed)
    /\ UNCHANGED <<alive, ambient, req, fetchResult, renderResult, proc, vision>>

\* ------------------------------------------------------- specifications

Step(r) ==
    \/ ValidateStart(r)
    \/ RenderStart(r)
    \/ FetchResponds(r)
    \/ FetchBody(r)
    \/ GeometryRemoved(r)
    \/ ValidateAfterFetch(r)
    \/ RenderAfterFetch(r)
    \/ EngineWrites(r)
    \/ Tick(r)
    \/ TimerFires(r)
    \/ ProcCloses(r)
    \/ ValidateAfterRender(r)
    \/ RenderAfterRender(r)
    \/ GeminiResponds(r)
    \/ OpenAIResponds(r)

\* one request at a time
Next == Step("r1")

Spec == Init /\ [][Next]_vars

\* Time passes and a due timer callback runs: the event loop of a live
\* service always gets to its timers. Nothing is assumed of the engine
\* process, which may run for ever.
FairSpec ==
    /\ Init
    /\ [][Next]_vars
    /\ WF_vars(Tick("r1"))
    /\ WF_vars(TimerFires("r1"))

\* ------------------------------------------------- two concurrent requests
\* Both requests are in flight at once and their steps interleave freely, as
\* the awaits of the two handlers do on one event loop. To keep the product
\* of the two pipelines small the requests are well formed and the world
\* around them behaves in a few chosen ways.

ConcSessions == {"sess-1", "sess-2"}

\* the views the engine gets round to writing
ConcWrittenViews == {"iso", "front"}

ConcScenario ==
    /\ \A f \in files :
          f[Len(f)] \in {Basename(GoodUrl)}
                        \cup {PreviewName(v) : v \in ConcWrittenViews}
    /\ \A r \in Requests :
        /\ req[r] # NoRequest =>
              /\ req[r].part = "bracket"
              /\ req[r].artifact3mfUrl = GoodUrl
              /\ req[r].op = "render" =>
                    req[r].views = [given |-> TRUE, list |-> <<"iso">>]
              /\ req[r].op = "validate" =>
                    /\ req[r].views = NoViews
                    /\ req[r].apiKeys \in
                          {[OPENAI_API_KEY |-> "req-openai-key",
                            GEMINI_API_KEY |-> undefined],
                           [OPENAI_API_KEY |-> undefined,
                            GEMINI_API_KEY |-> "req-gemini-key"]}
        /\ io[r].status \in {0, 200, 404}
        /\ io[r].backendStatus \in {0, 200}
        /\ IsPending(fetchResult[r])
              \/ fetchResult[r].success
              \/ "statusCode" \in DOMAIN fetchResult[r]
        /\ \A i \in DOMAIN io[r].caught :
              \E p \in files \cup {f \o <<PreviewName(v)>> :
                                      f \in dirs, v \in ConcWrittenViews} :
                  io[r].caught[i] = ReadMessage(p)
        /\ proc[r].code \in {NullCode, 0}
        /\ \A i \in DOMAIN local[r].artifacts :
              local[r].artifacts[i].base64.encoding
                  = (IF req[r].op = "validate" THEN "jpeg" ELSE "png")
        /\ IsPending(local[r].visionResult)
              \/ local[r].visionResult = [text |-> <<ObjectText>>,
                                          tokensUsed |-> 1500]

ConcInit ==
    /\ alive = TRUE
    /\ ambient = NoKeys
    /\ files = {}
    /\ dirs = {<<WORK_DIR>>}
    /\ pc = [r \in Requests |-> "idle"]
    /\ req = [r \in Requests |-> NoRequest]
    /\ local = [r \in Requests |-> NoLocal]
    /\ fetchResult = [r \in Requests |-> Pending]
    /\ renderResult = [r \in Requests |-> Pending]
    /\ proc = [r \in Requests |-> NoProc]
    /\ vision = [r \in Requests |-> <<>>]
    /\ response = [r \in Requests |-> <<>>]
    /\ io = [r \in Requests |-> NoIo]

ConcStep(r) ==
    \/ ValidateStartFrom(r, ConcSessions) /\ ConcScenario'
    \/ RenderStartFrom(r, ConcSessions) /\ ConcScenario'
    \/ FetchResponds(r) /\ ConcScenario'
    \/ FetchBody(r) /\ ConcScenario'
    \/ GeometryRemoved(r) /\ ConcScenario'
    \/ ValidateAfterFetch(r) /\ ConcScenario'
    \/ RenderAfterFetch(r) /\ ConcScenario'
    \/ EngineWrites(r) /\ ConcScenario'
    \/ Tick(r) /\ ConcScenario'
    \/ TimerFires(r) /\ ConcScenario'
    \/ ProcCloses(r) /\ ConcScenario'
    \/ ValidateAfterRender(r) /\ ConcScenario'
    \/ RenderAfterRender(r) /\ ConcScenario'
    \/ GeminiResponds(r) /\ ConcScenario'
    \/ OpenAIResponds(r) /\ ConcScenario'

ConcNext == \E r \in Requests : ConcStep(r)

ConcSpec == ConcInit /\ [][ConcNext]_vars

\* ------------------------------------------- authenticateApiKey, GET /health
\* The authenticated build of the service: app.use(authenticateApiKey) runs
\* in front of every route.

ServerKey == <<"server-key">>
WrongKey == <<"wrong-key">>
BearerPrefix == "Bearer "

\* a request header: absent, or a text kept as its sequence of tokens
NoHeader == [given |-> FALSE, text |-> <<>>]
Header(text) == [given |-> TRUE, text |-> text]

\* process.env.API_KEY: unset, set to the empty string, or set
ApiKeyInputs == {NoHeader, Header(<<>>), Header(ServerKey)}

XApiKeyInputs == {NoHeader, Header(<<>>), Header(ServerKey), Header(WrongKey)}

AuthorizationInputs ==
    {NoHeader,
     Header(<<BearerPrefix>> \o ServerKey),
     Header(<<BearerPrefix>> \o WrongKey),
     Header(ServerKey),
     Header(<<"Basic ">> \o ServerKey)}

RoutePaths == {"/health", "/validate", "/render"}

\* !value of a string that may be undefined
FalsyText(h) == ~h.given \/ h.text = <<>>

\* text.replace('Bearer ', ''): the first occurrence only, wherever it is
ReplaceBearer(text) ==
    IF \E i \in 1..Len(text) : text[i] = BearerPrefix
    THEN LET i == CHOOSE k \in 1..Len(text) :
                      /\ text[k] = BearerPrefix
                      /\ \A j \in 1..(k - 1) : text[j] # BearerPrefix
         IN SubSeq(text, 1, i - 1) \o SubSeq(text, i + 1, Len(text))
    ELSE text

\* the X-API-Key header alone
ProvidedKey_HeaderOnly(xApiKey, authorization) == xApiKey

\* req.headers['x-api-key'] || req.headers['authorization']?.replace(...)
ProvidedKey(xApiKey, authorization) ==
    IF ~FalsyText(xApiKey) THEN xApiKey
    ELSE IF authorization.given THEN Header(ReplaceBearer(authorization.text))
    ELSE NoHeader

AuthRefusal(status, error) ==
    [status |-> status, body |-> [ok |-> FALSE, error |-> error]]

HealthBody ==
    [status |-> "healthy", service |-> "vision-validate-plugin",
     blenderPath |-> "blender", allowedViews |-> ALLOWED_VIEWS]

AuthUnchanged ==
    UNCHANGED <<alive, ambient, files, dirs, local, fetchResult,
                renderResult, proc, vision, io>>

\* the middleware, from the arrival of a request to next() or to a refusal
authenticateApiKey(r) ==
    /\ alive
    /\ pc[r] = "idle"
    /\ \E path \in RoutePaths, xApiKey \in XApiKeyInputs,
          authorization \in AuthorizationInputs :
        LET providedKey == ProvidedKey(xApiKey, authorization)
            refuse(status, error) ==
                /\ pc' = [pc EXCEPT ![r] = "done"]
                /\ response' = [response EXCEPT
                                    ![r] = <<AuthRefusal(status, error)>>]
        IN /\ req' = [req EXCEPT ![r] = [op |-> "none", path |-> path,
                                         xApiKey |-> xApiKey,
                                         authorization |-> authorization]]
           /\ IF path = "/health"
              THEN /\ pc' = [pc EXCEPT ![r] = "handler"]
                   /\ UNCHANGED response
              ELSE IF FalsyText(ambient.API_KEY)
              THEN refuse(500,
                          "Server configuration error: API key not configured")
              ELSE IF FalsyText(providedKey)
              THEN refuse(401, "Authentication required: Missing API key")
              ELSE IF providedKey.text # ambient.API_KEY.text
              THEN refuse(403, "Authentication failed: Invalid API key")
              ELSE /\ pc' = [pc EXCEPT ![r] = "handler"]
                   /\ UNCHANGED response
    /\ AuthUnchanged

\* app.get('/health', ...)
Health(r) ==
    /\ alive
    /\ pc[r] = "handler"
    /\ req[r].path = "/health"
    /\ pc' = [pc EXCEPT ![r] = "done"]
    /\ response' = [response EXCEPT
                        ![r] = <<[status |-> 200, body |-> HealthBody]>>]
    /\ UNCHANGED req
    /\ AuthUnchanged

AuthInit ==
    /\ alive = TRUE
    /\ ambient \in [API_KEY : ApiKeyInputs]
    /\ files = {}
    /\ dirs = {<<WORK_DIR>>}
    /\ pc = [r \in Requests |-> "idle"]
    /\ req = [r \in Requests |-> NoRequest]
    /\ local = [r \in Requests |-> NoLocal]
    /\ fetchResult = [r \in Requests |-> Pending]
    /\ renderResult = [r \in Requests |-> Pending]
    /\ proc = [r \in Requests |-> NoProc]
    /\ vision = [r \in Requests |-> <<>>]
    /\ response = [r \in Requests |-> <<>>]
    /\ io = [r \in Requests |-> NoIo]

AuthNext ==
    \E r \in Requests :
        \/ authenticateApiKey(r)
        \/ Health(r)

AuthSpec == AuthInit /\ [][AuthNext]_vars

\* --------------------------------------------------------------- claims

\* the requests whose handler has run
Arrived == {r \in Requests : pc[r] # "idle"}

\* the envelopes written for request r
Envelopes(r) == {response[r][i] : i \in DOMAIN response[r]}

\* a field the body does not carry, or carries empty
MissingField(x) == x = undefined \/ x = ""

\* a view list that is absent, empty, or holds no allowed name
InvalidViewList(v) == ~v.given \/ \A i \in DOMAIN v.list : v.list[i] \notin ALLOWED_VIEWS

\* the required fields request r lacks
MissingFields(r) ==
    {f \in {"part", "artifact3mfUrl"} : MissingField(req[r][f])}
    \cup (IF req[r].op = "render" /\ MissingField(req[r].sessionId)
          THEN {"sessionId"} ELSE {})
    \cup (IF req[r].op = "render" /\ InvalidViewList(req[r].views)
          THEN {"views"} ELSE {})

\* something failed while request r was served
SomethingFailed(r) ==
    \/ MissingFields(r) # {}
    \/ ~IsPending(fetchResult[r]) /\ ~fetchResult[r].success
    \/ ~IsPending(renderResult[r]) /\ ~renderResult[r].success
    \/ io[r].caught # <<>>
    \/ req[r].op = "validate" /\ pc[r] = "done" /\ vision[r] = <<>>

\* a non-empty text
Populated(text) == text # <<>> /\ \A i \in DOMAIN text : text[i] # ""

\* C1: every response is a ResultEnvelope (ok, tokensUsed, artifacts, result,
\* optional error); an envelope without ok=true carries a populated error, and
\* when anything failed while the request was served (input validation, fetch,
\* render, conversion, backend call, interpretation) the envelope has ok=false
\* and a populated error.
C1_FailureEnvelope ==
    \A r \in Arrived : \A e \in Envelopes(r) :
        /\ {"ok", "tokensUsed", "artifacts", "result"} \subseteq DOMAIN e
        /\ DOMAIN e \subseteq {"ok", "tokensUsed", "artifacts", "result", "error"}
        /\ e.ok \in BOOLEAN
        /\ e.tokensUsed \in Nat
        /\ ~e.ok => "error" \in DOMAIN e /\ Populated(e.error)
        /\ SomethingFailed(r) => ~e.ok /\ "error" \in DOMAIN e /\ Populated(e.error)

\* C1 witness: an exception was caught by the handler and answered
C1_Witness ==
    \E r \in Arrived : io[r].caught # <<>> /\ Len(response[r]) = 1 /\ pc[r] = "done"

\* C2 (the part a finite run decides): no failure ends the service process,
\* so a request that has arrived and is not yet answered is being served by a
\* running service.
C2_ServiceSurvives ==
    \A r \in Arrived : response[r] = <<>> => alive

\* the error text names field f
NamesField(text, f) ==
    CASE f = "part" -> text = <<"part is required">>
      [] f = "artifact3mfUrl" -> text = <<"artifact3mfUrl is required">>
      [] f = "sessionId" -> text = <<"context.sessionId is required">>
      [] f = "views" ->
            /\ Len(text) = 2
            /\ text[1] \in {"views is required and must include at least one of: ",
                            "No valid views provided. Allowed views: "}
            /\ text[2] = ALLOWED_VIEW_LIST

\* nothing was fetched, written or launched for request r
NoIoAttempted(r) ==
    /\ io[r].fetches = 0 /\ io[r].writes = 0 /\ io[r].spawns = 0
    /\ io[r].removals = 0
    /\ proc[r].state = "none"
    /\ IsPending(fetchResult[r])

\* C3: a request missing part or the artifact URL (either operation), or, for
\* RenderPreview, missing the session id or without a valid view, is answered
\* by one failure envelope (ok=false, error naming a missing field, no
\* artifacts, tokensUsed 0) and no fetch, write or launch is attempted.
C3_MissingInput ==
    \A r \in Arrived : MissingFields(r) # {} =>
        /\ pc[r] = "done"
        /\ Len(response[r]) = 1
        /\ LET e == response[r][1] IN
            /\ e.ok = FALSE
            /\ e.artifacts = <<>>
            /\ e.tokensUsed = 0
            /\ \E f \in MissingFields(r) : NamesField(e.error, f)
        /\ NoIoAttempted(r)
        /\ files = {} /\ dirs = {<<WORK_DIR>>}

\* C3 witness: RenderPreview with part and URL but no session id and a valid
\* view list was answered
C3_Witness ==
    \E r \in Arrived :
        /\ req[r].op = "render"
        /\ MissingFields(r) = {"sessionId"}
        /\ pc[r] = "done"

\* C4: a request whose session id is missing is answered before any network
\* fetch or filesystem write is attempted, in Validate as in RenderPreview.
C4_NoIoWithoutSession ==
    \A r \in Arrived : MissingField(req[r].sessionId) =>
        io[r].fetches = 0 /\ io[r].writes = 0

\* a transport status outside 200..299
NonSuccess(status) == status # 0 /\ (status < 200 \/ status > 299)

\* the text holds the words Failed to fetch
SaysFailedToFetch(text) == \E i \in DOMAIN text : text[i] = "Failed to fetch 3MF: "

\* C5: when the artifact URL answers with a non-success status s, the
\* pipeline stops at the fetch step (no engine is launched, no backend is
\* called) and the envelope, in either operation, has ok=false, an error
\* holding "Failed to fetch", a payload whose statusCode is s, and no artifact.
C5_FetchStatusEnvelope ==
    \A r \in Arrived : NonSuccess(io[r].status) =>
        /\ pc[r] \in {"fetched", "done"}
        /\ io[r].spawns = 0 /\ proc[r].state = "none" /\ IsPending(renderResult[r])
        /\ vision[r] = <<>>
        /\ pc[r] = "done" =>
            /\ Len(response[r]) = 1
            /\ LET e == response[r][1] IN
                /\ e.ok = FALSE
                /\ SaysFailedToFetch(e.error)
                /\ "statusCode" \in DOMAIN e.result
                /\ e.result.statusCode = io[r].status
                /\ e.artifacts = <<>>

\* C5 witness: /render answered after the store said 404
C5_Witness ==
    \E r \in Arrived :
        req[r].op = "render" /\ io[r].status = 404 /\ pc[r] = "done"

\* the fetch step of request r has returned
FetchReturned(r) == ~IsPending(fetchResult[r])

\* C6: fetch3mfFile never raises: once past the fetch step the handler holds
\* a tagged outcome and its catch block has received nothing from the fetch;
\* a non-success status gives success=false with the status code and text, an
\* exception (a malformed URL included) gives success=false with its message
\* and no status code, and success=true carries a local path.
C6_FetchOutcome ==
    \A r \in Arrived :
        /\ pc[r] \in {"fetched", "awaitRender", "rendered", "awaitVision"}
              => FetchReturned(r)
        /\ ~FetchReturned(r) => io[r].caught = <<>>
        /\ (pc[r] = "done" /\ ~FetchReturned(r)) => io[r].fetches = 0
        /\ FetchReturned(r) =>
            LET fr == fetchResult[r] IN
            /\ "success" \in DOMAIN fr /\ fr.success \in BOOLEAN
            /\ fr.success =>
                   /\ "localPath" \in DOMAIN fr /\ fr.localPath # <<>>
                   /\ ~NonSuccess(io[r].status)
            /\ NonSuccess(io[r].status) =>
                   /\ ~fr.success
                   /\ "statusCode" \in DOMAIN fr /\ fr.statusCode = io[r].status
                   /\ fr.error = <<"HTTP ", StatusStr(io[r].status), " ",
                                   StatusText(io[r].status)>>
            /\ (~fr.success /\ ~NonSuccess(io[r].status)) =>
                   /\ "statusCode" \notin DOMAIN fr
                   /\ Populated(fr.error)
            /\ ~fr.success => io[r].caught = <<>>

\* C6 witness: a malformed URL came back as a failure outcome and the handler
\* answered from it
C6_Witness ==
    \E r \in Arrived :
        /\ req[r].artifact3mfUrl = MalformedUrl
        /\ FetchReturned(r) /\ ~fetchResult[r].success
        /\ pc[r] = "done"

\* the requested views whose expected file is in the output directory of r
ProducedViews(r) ==
    SelectSeq(local[r].views,
              LAMBDA v : local[r].outputDir \o <<PreviewName(v)>> \in files)

\* the views of the frames the render outcome of r lists
FrameViews(r) ==
    [i \in DOMAIN renderResult[r].images |-> renderResult[r].images[i].viewName]

\* C7 as stated: after any render invocation success holds exactly when an
\* expected file of a requested view is in the output directory.
C7_SuccessIffFiles ==
    \A r \in Arrived : pc[r] = "rendered" =>
        (renderResult[r].success <=> ProducedViews(r) # <<>>)

\* C7 amended: after a render invocation that did not end by the timer (the
\* engine process closed first, or the geometry was absent and no engine ran)
\* success holds exactly when an expected file of a requested view is in the
\* output directory, and the frames are those views, whatever the exit code;
\* after an invocation the timer ended success is false.
C7_SuccessIffFilesAtClose ==
    \A r \in Arrived : pc[r] = "rendered" =>
        IF proc[r].timer = "fired" THEN ~renderResult[r].success
        ELSE /\ renderResult[r].success <=> ProducedViews(r) # <<>>
             /\ FrameViews(r) = ProducedViews(r)

\* C7 witness: the engine exited with code 1 leaving one expected file, and
\* the outcome is a success
C7_Witness ==
    \E r \in Arrived :
        /\ pc[r] = "rendered" /\ proc[r].state = "closed" /\ proc[r].code = 1
        /\ Len(ProducedViews(r)) = 1
        /\ renderResult[r].success

\* C8: once the timer has fired before the engine process exited, the process
\* has been sent one terminate signal and the outcome is success=false with no
\* frame, whatever files are in the output directory.
C8_TimeoutOutcome ==
    \A r \in Arrived : proc[r].timer = "fired" =>
        /\ proc[r].signalled /\ io[r].signals = 1
        /\ renderResult[r] = [success |-> FALSE, images |-> <<>>]

\* C8 witness: the timer fired while an expected file was in the directory
C8_Witness ==
    \E r \in Arrived :
        proc[r].timer = "fired" /\ ProducedViews(r) # <<>> /\ pc[r] = "rendered"

\* the geometry file was gone when the render step ran
GeometryAbsent(r) ==
    FetchReturned(r) /\ fetchResult[r].success /\ fetchResult[r].localPath \notin files

\* the engine closed before the timer and left no expected file
NoExpectedFile(r) ==
    /\ proc[r].state = "closed" /\ proc[r].timer = "cleared"
    /\ local[r].outputDir \in dirs
    /\ ProducedViews(r) = <<>>

\* the timer ended the render step
TimedOut(r) == proc[r].timer = "fired"

\* C9: each render failure cause (geometry absent, engine closed with no
\* expected file, timeout) makes either operation answer ok=false, error
\* "Rendering failed", no artifact, tokensUsed 0, without a backend call.
C9_RenderFailedEnvelope ==
    \A r \in Arrived :
        (GeometryAbsent(r) \/ NoExpectedFile(r) \/ TimedOut(r)) =>
            /\ vision[r] = <<>>
            /\ pc[r] \in {"fetched", "rendered", "done"}
            /\ pc[r] = "done" =>
                /\ Len(response[r]) = 1
                /\ LET e == response[r][1] IN
                    /\ e.ok = FALSE
                    /\ e.error = <<"Rendering failed">>
                    /\ e.result.error = <<"Rendering failed">>
                    /\ e.artifacts = <<>>
                    /\ e.tokensUsed = 0

\* C9 witness: /render answered after the engine exited with code 0 and no
\* expected file
C9_Witness ==
    \E r \in Arrived :
        /\ req[r].op = "render" /\ NoExpectedFile(r) /\ proc[r].code = 0
        /\ pc[r] = "done"

\* normalizeViews restated: the allowed names of the list, first occurrences
AllowedOnce(list) ==
    LET keep(i) == list[i] \in ALLOWED_VIEWS /\ \A j \in 1..(i - 1) : list[j] # list[i]
        idx == {i \in DOMAIN list : keep(i)}
        nth[k \in 1..Cardinality(idx)] ==
            CHOOSE i \in idx : Cardinality({j \in idx : j < i}) = k - 1
    IN  [k \in 1..Cardinality(idx) |-> list[nth[k]]]

\* C10: when the engine process closes before the timer having written k of
\* the n requested view files (1 <= k <= n) and the frames are read,
\* RenderPreview answers ok=true with k artifacts, one per produced view in
\* requested order and named <part>_<view>.png, a renderedViews list matching
\* them one to one, and a viewsRequested list of the n normalized views.
C10_PartialRender ==
    \A r \in Arrived :
        ( /\ req[r].op = "render" /\ pc[r] = "done"
          /\ proc[r].state = "closed" /\ proc[r].timer = "cleared"
          /\ io[r].caught = <<>>
          /\ local[r].outputDir \in dirs
          /\ ProducedViews(r) # <<>> ) =>
            LET produced == ProducedViews(r)
                requested == AllowedOnce(req[r].views.list)
                e == response[r][1]
            IN
            /\ Len(response[r]) = 1
            /\ e.ok = TRUE
            /\ Len(produced) <= Len(requested)
            /\ Len(e.artifacts) = Len(produced)
            /\ \A i \in DOMAIN produced :
                /\ e.artifacts[i].name = <<req[r].part, "_", produced[i], ".png">>
                /\ e.result.renderedViews[i].view = produced[i]
                /\ e.result.renderedViews[i].file = e.artifacts[i].name
            /\ Len(e.result.renderedViews) = Len(e.artifacts)
            /\ e.result.viewsRequested = requested
            /\ \A i, j \in DOMAIN produced : i < j =>
                   \E a, b \in DOMAIN requested :
                       a < b /\ requested[a] = produced[i] /\ requested[b] = produced[j]

\* C10 witness: three views requested, two produced, answered
C10_Witness ==
    \E r \in Arrived :
        /\ req[r].op = "render" /\ pc[r] = "done"
        /\ proc[r].state = "closed" /\ proc[r].timer = "cleared"
        /\ io[r].caught = <<>>
        /\ local[r].outputDir \in dirs
        /\ Len(local[r].views) = 3 /\ Len(ProducedViews(r)) = 2

\* a key for the backend is given, in the request or in the environment
KeyAvailable(r, name) ==
    ~MissingField(req[r].apiKeys[name]) \/ ~MissingField(ambient[name])

\* /validate of r got its frames: the engine closed before the timer leaving
\* expected files, and nothing was caught
FramesRendered(r) ==
    /\ req[r].op = "validate"
    /\ proc[r].state = "closed" /\ proc[r].timer = "cleared"
    /\ ~IsPending(renderResult[r]) /\ renderResult[r].success

\* C11: when fetch and render succeeded and no backend key is available, in
\* the request or in the environment, Validate answers ok=false with error
\* exactly "No vision API key provided", tokensUsed 0 and one artifact per
\* rendered frame, and calls no backend.
C11_NoKeyEnvelope ==
    \A r \in Arrived :
        ( /\ FramesRendered(r) /\ pc[r] = "done" /\ io[r].caught = <<>>
          /\ ~KeyAvailable(r, "GEMINI_API_KEY")
          /\ ~KeyAvailable(r, "OPENAI_API_KEY") ) =>
            /\ vision[r] = <<>>
            /\ Len(response[r]) = 1
            /\ LET e == response[r][1] IN
                /\ e.ok = FALSE
                /\ e.error = <<"No vision API key provided">>
                /\ e.tokensUsed = 0
                /\ Len(e.artifacts) = Len(renderResult[r].images)
                /\ Len(e.artifacts) = Len(ProducedViews(r))
                /\ Len(e.artifacts) >= 1
                /\ \A i \in DOMAIN e.artifacts :
                       e.artifacts[i].name =
                           <<req[r].part, "_", ProducedViews(r)[i], ".jpg">>

\* C11 witness: two frames rendered, no key anywhere, answered
C11_Witness ==
    \E r \in Arrived :
        /\ FramesRendered(r) /\ pc[r] = "done" /\ io[r].caught = <<>>
        /\ ~KeyAvailable(r, "GEMINI_API_KEY")
        /\ ~KeyAvailable(r, "OPENAI_API_KEY")
        /\ Len(ProducedViews(r)) = 2

\* /validate of r is at or past the analysis step: the conversion loop has
\* filled the artifact list
AtAnalysis(r) ==
    /\ req[r].op = "validate"
    /\ pc[r] \in {"awaitVision", "done"}
    /\ local[r].artifacts # <<>>

\* C12: a Validate that reaches the analysis step calls exactly one backend
\* when a key is available and none otherwise; the Gemini backend is called
\* whenever a Gemini key is available, the OpenAI backend only when none is;
\* and no request ever makes a second backend call, a failed first one
\* included.
C12_OneBackend ==
    \A r \in Arrived :
        /\ Len(vision[r]) <= 1
        /\ vision[r] # <<>> => AtAnalysis(r)
        /\ AtAnalysis(r) =>
            LET gemini == KeyAvailable(r, "GEMINI_API_KEY")
                openai == KeyAvailable(r, "OPENAI_API_KEY")
            IN
            /\ (gemini \/ openai) => Len(vision[r]) = 1
            /\ (~gemini /\ ~openai) => vision[r] = <<>>
            /\ gemini => vision[r][1].provider = "gemini"
            /\ (~gemini /\ openai) => vision[r][1].provider = "openai"

\* C12 witness: keys for both backends, the Gemini call failed, the request
\* is answered and the OpenAI backend was never called
C12_Witness ==
    \E r \in Arrived :
        /\ AtAnalysis(r) /\ pc[r] = "done"
        /\ KeyAvailable(r, "GEMINI_API_KEY") /\ KeyAvailable(r, "OPENAI_API_KEY")
        /\ io[r].caught # <<>>
        /\ Len(vision[r]) = 1 /\ vision[r][1].provider = "gemini"

\* the request of r supplies the key
Supplied(r, name) == ~MissingField(req[r].apiKeys[name])

\* the keys the request of r supplies
SuppliedKeys(r) ==
    {req[r].apiKeys[name] : name \in {n \in {"GEMINI_API_KEY", "OPENAI_API_KEY"} :
                                          Supplied(r, n)}}

\* C13: when the request supplies at least one backend key, the key passed
\* to the chosen backend is a key the request supplied, never one from the
\* environment.
C13_RequestKeyFirst ==
    \A r \in Arrived :
        (SuppliedKeys(r) # {} /\ vision[r] # <<>>) =>
            \A i \in DOMAIN vision[r] : vision[r][i].key \in SuppliedKeys(r)

\* the message of the exception the backend function throws on status s
BackendErrorMessage(provider, s) ==
    IF provider = "gemini" THEN <<"Gemini API error: ", StatusStr(s)>>
    ELSE <<StatusStr(s), " status code (no body)">>

\* C14: a non-success response of the chosen backend is thrown as an
\* exception, and the catch block answers once with ok=false and an error
\* equal to the exception's message.
C14_BackendFailureEnvelope ==
    \A r \in Arrived : NonSuccess(io[r].backendStatus) =>
        /\ pc[r] = "done"
        /\ Len(vision[r]) = 1
        /\ io[r].caught =
               <<BackendErrorMessage(vision[r][1].provider, io[r].backendStatus)>>
        /\ Len(response[r]) = 1
        /\ LET e == response[r][1] IN
            /\ e.ok = FALSE
            /\ e.error = io[r].caught[1]
            /\ e.result.error = io[r].caught[1]
            /\ e.tokensUsed = 0

\* C14 witness: the Gemini backend answered 429 and the request is answered
C14_Witness ==
    \E r \in Arrived :
        /\ io[r].backendStatus = 429 /\ vision[r] # <<>>
        /\ vision[r][1].provider = "gemini"
        /\ pc[r] = "done"

\* the backend of r has returned text
TextReturned(r) == ~IsPending(local[r].visionResult)

\* the pieces that are language tags of a fenced block
LanguageTags == {"json", "javascript"}

\* the positions of the fences in the text
FencePositions(raw) == {i \in DOMAIN raw : raw[i] = Fence}

\* the text holds a fenced block: an opening and a closing fence
HasFencedBlock(raw) == Cardinality(FencePositions(raw)) >= 2

\* the pieces of the first fenced block between its fences, a language tag
\* after the opening fence left out, blanks at both ends dropped
FencedInterior(raw) ==
    LET open == CHOOSE i \in FencePositions(raw) :
                    \A j \in FencePositions(raw) : i <= j
        close == CHOOSE i \in FencePositions(raw) \ {open} :
                     \A j \in FencePositions(raw) \ {open} : i <= j
        first == IF open + 1 < close /\ raw[open + 1] \in LanguageTags
                 THEN open + 2 ELSE open + 1
        inner == [k \in 1..(close - first) |-> raw[first + k - 1]]
        lead == {k \in DOMAIN inner : \A j \in 1..k : inner[j] = Blank}
        trail == {k \in DOMAIN inner : \A j \in k..Len(inner) : inner[j] = Blank}
    IN  [k \in 1..(Len(inner) - Cardinality(lead) - Cardinality(trail)) |->
            inner[k + Cardinality(lead)]]

\* the candidate payload of a raw text
Payload(raw) == IF HasFencedBlock(raw) THEN FencedInterior(raw) ELSE raw

\* the payload is the text of a JSON value
Parses(payload) == payload \in {<<ObjectText>>, <<"null">>}

\* the verdict the object text stands for
ObjectVerdict ==
    [verdict |-> "pass", confidence |-> "0.9", summary |-> <<"ok">>,
     issues |-> <<>>, recommendations |-> <<>>]

\* C15: for every raw backend text whose candidate payload (the interior of
\* the first fenced block, else the raw text) does not parse, the interpreter
\* returns verdict "unknown", confidence null, the entire raw text as summary
\* and empty issues and recommendations, and Validate reports that verdict.
C15_FallbackVerdict ==
    \A r \in Arrived : TextReturned(r) =>
        LET raw == local[r].visionResult.text IN
        ~Parses(Payload(raw)) =>
            /\ parseVisionResponse(raw) =
                   [verdict |-> "unknown", confidence |-> "null", summary |-> raw,
                    issues |-> <<>>, recommendations |-> <<>>]
            /\ Len(response[r]) = 1
            /\ LET res == response[r][1].result IN
                /\ res.verdict = "unknown" /\ res.confidence = "null"
                /\ res.summary = raw
                /\ res.issues = <<>> /\ res.recommendations = <<>>

\* C15 witness: prose around a fenced block that is not JSON
C15_Witness ==
    \E r \in Arrived :
        /\ TextReturned(r) /\ pc[r] = "done"
        /\ HasFencedBlock(local[r].visionResult.text)
        /\ ~Parses(Payload(local[r].visionResult.text))
        /\ Len(local[r].visionResult.text) > 3

\* C16: on a text holding a fenced block, with or without a language tag,
\* that wraps the text of a valid object, the interpreter returns the parse
\* of the fenced interior, the same as parsing the interior alone, whatever
\* prose surrounds the block.
C16_FencedInteriorParsed ==
    \A r \in Arrived : TextReturned(r) =>
        LET raw == local[r].visionResult.text IN
        (HasFencedBlock(raw) /\ FencedInterior(raw) = <<ObjectText>>) =>
            /\ parseVisionResponse(raw) = ObjectVerdict
            /\ parseVisionResponse(raw) = parseVisionResponse(FencedInterior(raw))

\* C17: once the backend has returned text, whatever the text, Validate
\* answers with an ok=true envelope.
C17_TextNeverFails ==
    \A r \in Arrived : (TextReturned(r) /\ pc[r] = "done") =>
        /\ Len(response[r]) = 1
        /\ response[r][1].ok = TRUE

\* the requests that went through normalizeViews
Normalized == {r \in Arrived : req[r].op = "render"}

\* C18: for every view list holding at least one recognized name,
\* normalizeViews returns no error and the recognized names of the input
\* (matched case-sensitively), each once, in order of first occurrence, and
\* normalizing its output returns the same list.
C18_NormalizedViews ==
    \A r \in Normalized :
        LET v == req[r].views
            n == normalizeViews(v)
        IN
        ~InvalidViewList(v) =>
            /\ "error" \notin DOMAIN n
            /\ n.views = AllowedOnce(v.list)
            /\ local[r].views = n.views
            /\ \A i, j \in DOMAIN n.views : i # j => n.views[i] # n.views[j]
            /\ Range(n.views) = Range(v.list) \cap ALLOWED_VIEWS
            /\ normalizeViews([given |-> TRUE, list |-> n.views]) = n

\* C18 witness: the list top, TOP, top was normalized to top
C18_Witness ==
    \E r \in Normalized :
        /\ req[r].views.list = <<"top", "TOP", "top">>
        /\ local[r].views = <<"top">>

\* C19: normalizeViews returns an error exactly when the input is absent,
\* empty or holds no recognized name; then the returned list is empty and
\* the error names the allowed views; an unrecognized entry next to a
\* recognized one gives no error.
C19_NormalizeError ==
    \A r \in Normalized :
        LET v == req[r].views
            n == normalizeViews(v)
        IN
        /\ "error" \in DOMAIN n <=> InvalidViewList(v)
        /\ "error" \in DOMAIN n =>
            /\ n.views = <<>>
            /\ local[r].views = <<>>
            /\ Len(n.error) = 2
            /\ n.error[2] = "iso, front, back, left, right, top, bottom"
            /\ ~MissingField(req[r].part) =>
                   Len(response[r]) = 1 /\ response[r][1].error = n.error

\* C19 witness: a list holding only TOP was refused
C19_Witness ==
    \E r \in Normalized :
        /\ req[r].views.list = <<"TOP">>
        /\ ~MissingField(req[r].part)
        /\ pc[r] = "done"

\* the render output directory of r was created
OutputDirCreated(r) == io[r].spawns > 0

\* C20: a request that created a render output directory has attempted to
\* remove it by the time its handler has answered and returned, whether the
\* answer is a success or a failure envelope.
C20_CleanupAttempted ==
    \A r \in Arrived :
        (pc[r] = "done" /\ OutputDirCreated(r)) => io[r].removals > 0

\* the files and directories the service wrote for request r that are
\* still on disk: the downloaded geometry and its session directory, the
\* render output directory and what is in it
LeftOnDisk(r) ==
    {f \in files : FetchReturned(r) /\ fetchResult[r].success
                   /\ f = fetchResult[r].localPath}
    \cup {f \in files : local[r].outputDir # <<>> /\ Dirname(f) = local[r].outputDir}
    \cup {d \in dirs : FetchReturned(r) /\ fetchResult[r].success
                       /\ d = Dirname(fetchResult[r].localPath) /\ d # <<WORK_DIR>>}
    \cup {d \in dirs : d = local[r].outputDir}

\* the handler of r called the removal and it did not fail
RemovalSucceeded(r) == io[r].removals > 0 /\ local[r].outputDir \notin dirs

\* C21: when a request has completed and the removal it attempted did not
\* fail, nothing written for the request is left on disk: neither the
\* session's working directory nor the downloaded geometry file nor a frame.
C21_NothingLeftOnDisk ==
    \A r \in Arrived :
        (pc[r] = "done" /\ RemovalSucceeded(r)) => LeftOnDisk(r) = {}

\* C22: the supervisor has not returned to the handler while the engine
\* process it spawned is still running; a request whose render step returned
\* has no running child process.
C22_NoRunningChildAfterReturn ==
    \A r \in Arrived :
        (pc[r] \in {"rendered", "awaitVision", "done"} /\ proc[r].state # "none")
            => proc[r].state = "closed"

\* the server has an API key to compare with
Configured == ~FalsyText(ambient.API_KEY)

\* the request carries the configured key in X-API-Key, or in Authorization
\* with or without the Bearer prefix
PresentsKey(r) ==
    \/ req[r].xApiKey.given /\ req[r].xApiKey.text = ambient.API_KEY.text
    \/ /\ req[r].authorization.given
       /\ \/ req[r].authorization.text = <<BearerPrefix>> \o ambient.API_KEY.text
          \/ req[r].authorization.text = ambient.API_KEY.text

\* the request carries no key at all
PresentsNothing(r) ==
    /\ FalsyText(req[r].xApiKey)
    /\ ~req[r].authorization.given

RefusedWith(r, status) ==
    /\ pc[r] = "done"
    /\ Len(response[r]) = 1
    /\ response[r][1].status = status
    /\ response[r][1].body.ok = FALSE

Admitted(r) == pc[r] = "handler" /\ response[r] = <<>>

C24_ValidateFixedViews ==
    \A r \in Arrived :
        (req[r].op = "validate" /\ proc[r].state # "none")
            => proc[r].views = <<"iso", "front", "right", "top", "bottom">>

\* a /validate request that names other views has launched the engine
C24_Witness ==
    \E r \in Arrived :
        /\ req[r].op = "validate"
        /\ req[r].views.given /\ req[r].views.list = <<"back", "left">>
        /\ proc[r].state = "running"
        /\ proc[r].views = <<"iso", "front", "right", "top", "bottom">>

\* the views a /render request asked for, as the handler understood them
RequestedViews(r) == normalizeViews(req[r].views).views

\* C25: RenderPreview never calls a vision backend; every envelope it returns
\* has tokensUsed 0; in a success envelope every rendered view listed is one
\* of the requested views.
C25_RenderNoBackend ==
    \A r \in Arrived :
        req[r].op = "render" =>
            /\ vision[r] = <<>>
            /\ io[r].backendStatus = 0
            /\ pc[r] # "awaitVision"
            /\ \A i \in DOMAIN response[r] :
                LET e == response[r][i] IN
                /\ e.tokensUsed = 0
                /\ e.ok =>
                    /\ e.result.viewsRequested = RequestedViews(r)
                    /\ \A j \in DOMAIN e.result.renderedViews :
                          \E k \in DOMAIN RequestedViews(r) :
                              e.result.renderedViews[j].view = RequestedViews(r)[k]

\* a /render request answered with fewer rendered views than it asked for
C25_Witness ==
    \E r \in Arrived :
        /\ req[r].op = "render"
        /\ Len(response[r]) = 1
        /\ response[r][1].ok
        /\ Len(response[r][1].result.renderedViews) > 0
        /\ Len(response[r][1].result.renderedViews) < Len(RequestedViews(r))

\* the artifacts a request has assembled carry, frame by frame, the given
\* encoding of the frame's file
ArtifactsEncoded(r, encoding) ==
    \A i \in DOMAIN local[r].artifacts :
        local[r].artifacts[i].base64.encoding = encoding

\* C26: RenderPreview artifacts carry the unconverted PNG bytes of each
\* rendered frame; Validate artifacts and the images sent to the backend
\* carry the JPEG encoding of each frame.
C26_Encodings ==
    \A r \in Arrived :
        /\ req[r].op = "render" =>
              /\ ArtifactsEncoded(r, "png")
              /\ \A i \in DOMAIN local[r].artifacts :
                    local[r].artifacts[i].base64
                        = ReadPng(renderResult[r].images[i].path)
        /\ req[r].op = "validate" =>
              /\ ArtifactsEncoded(r, "jpeg")
              /\ \A c \in DOMAIN vision[r] :
                    \A i \in DOMAIN vision[r][c].images :
                        vision[r][c].images[i].encoding = "jpeg"

\* the render step was invoked while the fetched geometry file was gone
InvokedWithoutGeometry(r) ==
    GeometryAbsent(r) /\ pc[r] # "fetched" /\ local[r].outputDir # <<>>

\* C27: when the geometry file does not exist at invocation, the supervisor
\* returns success=false with zero images, creates no output directory,
\* launches no engine process and arms no timer.
C27_AbsentGeometry ==
    \A r \in Arrived :
        InvokedWithoutGeometry(r) =>
            /\ renderResult[r] = [success |-> FALSE, images |-> <<>>]
            /\ local[r].outputDir \notin dirs
            /\ io[r].spawns = 0 /\ io[r].signals = 0
            /\ proc[r].state = "none"
            /\ proc[r].timer = "none"

\* the supervisor has returned to a handler that found no geometry file
C27_Witness ==
    \E r \in Arrived :
        /\ InvokedWithoutGeometry(r)
        /\ pc[r] = "rendered"
        /\ ~IsPending(renderResult[r])

\* the engine of request r exited while the timer was still armed, and the
\* supervisor has returned
ExitedBeforeTimer(r) ==
    pc[r] = "rendered" /\ proc[r].state = "closed" /\ proc[r].timer = "cleared"

\* where a view stands in the list handed to the engine
RequestedAt(r, v) == CHOOSE k \in DOMAIN proc[r].views : proc[r].views[k] = v

ExpectedFile(r, v) == proc[r].dir \o <<PreviewName(v)>>

\* C28: when the engine exits before the timer fires, the frames returned are
\* exactly the requested views whose file preview_<view> exists at that
\* moment, one frame per such view, in requested order; there is no frame for
\* a view whose file is absent or that was not requested.
C28_FramesAtExit ==
    \A r \in Arrived :
        ExitedBeforeTimer(r) =>
            LET imgs == renderResult[r].images
                views == proc[r].views
            IN
            /\ \A k \in DOMAIN views :
                  (ExpectedFile(r, views[k]) \in files)
                      <=> \E i \in DOMAIN imgs : imgs[i].viewName = views[k]
            /\ \A i \in DOMAIN imgs :
                  /\ \E k \in DOMAIN views : views[k] = imgs[i].viewName
                  /\ imgs[i].name = PreviewName(imgs[i].viewName)
                  /\ imgs[i].path = ExpectedFile(r, imgs[i].viewName)
                  /\ imgs[i].path \in files
            /\ \A i, j \in DOMAIN imgs :
                  i < j => /\ imgs[i].viewName # imgs[j].viewName
                           /\ RequestedAt(r, imgs[i].viewName)
                                  < RequestedAt(r, imgs[j].viewName)

\* two frames returned, in order, for a request that asked for more views
C28_Witness ==
    \E r \in Arrived :
        /\ ExitedBeforeTimer(r)
        /\ Len(renderResult[r].images) = 2
        /\ Len(proc[r].views) > 2
        /\ RequestedAt(r, renderResult[r].images[1].viewName) + 1
               < RequestedAt(r, renderResult[r].images[2].viewName)

\* the render step of request r has launched the engine and not yet returned
EngineLaunched(r) == pc[r] = "awaitRender" /\ proc[r].state = "running"

\* the render step of request r has returned an outcome
RenderReturned(r) == pc[r] # "awaitRender" /\ ~IsPending(renderResult[r])

\* C29: every render invocation that launched the engine eventually returns
\* an outcome, even if the engine never exits or ignores the terminate
\* signal: it has returned once the 300-second timer has fired.
C29_RenderReturns ==
    /\ \A r \in Requests : EngineLaunched(r) ~> RenderReturned(r)
    /\ [](\A r \in Requests : proc[r].timer = "fired" => RenderReturned(r))

\* the handler has answered while the engine, signalled at the timeout, is
\* still running
C29_Witness ==
    \E r \in Arrived :
        /\ proc[r].timer = "fired" /\ proc[r].signalled
        /\ proc[r].state = "running"
        /\ RenderReturned(r) /\ pc[r] = "done"

\* the frames of a /validate request whose conversion fell back to the file
FellBack(r) ==
    {i \in DOMAIN local[r].artifacts :
        local[r].artifacts[i].base64.encoding # "jpeg"}

\* C30: in Validate a failure of the compression facility for a rendered
\* frame produces no failure envelope: the frame's raw file bytes are used
\* unmodified for its artifact and the pipeline continues to the analysis.
C30_ConversionFallback ==
    \A r \in Arrived :
        (req[r].op = "validate" /\ FellBack(r) # {}) =>
            /\ Len(local[r].artifacts) = Len(renderResult[r].images)
            /\ \A i \in FellBack(r) :
                  local[r].artifacts[i].base64
                      = ReadPng(renderResult[r].images[i].path)
            /\ IF KeyAvailable(r, "GEMINI_API_KEY")
                    \/ KeyAvailable(r, "OPENAI_API_KEY")
               THEN /\ vision[r] # <<>>
                    /\ \A i \in DOMAIN local[r].artifacts :
                          vision[r][1].images[i] = local[r].artifacts[i].base64
               ELSE /\ Len(response[r]) = 1
                    /\ response[r][1].artifacts = local[r].artifacts
            /\ \A i \in DOMAIN io[r].caught :
                  \A j \in DOMAIN renderResult[r].images :
                      io[r].caught[i] # ReadMessage(renderResult[r].images[j].path)

\* a request whose only frame fell back to its raw bytes was answered with a
\* verdict
C30_Witness ==
    \E r \in Arrived :
        /\ req[r].op = "validate"
        /\ FellBack(r) # {}
        /\ pc[r] = "done"
        /\ Len(response[r]) = 1 /\ response[r][1].ok

\* the fetcher of request r got a response that was not a success
FetchRefused(r) == io[r].status # 0 /\ ~ResponseOk(io[r].status)

\* the fetcher of request r was called with a URL that does not parse
FetchedMalformed(r) ==
    /\ FetchReturned(r)
    /\ req[r].artifact3mfUrl = MalformedUrl
    /\ ~IsPending(fetchResult[r])

\* nothing exists but the work directory
DiskUntouched == files = {} /\ dirs = {<<WORK_DIR>>}

\* the step in which the fetcher of request r returns a success outcome
FetchSucceeds(r) ==
    /\ IsPending(fetchResult[r])
    /\ ~IsPending(fetchResult'[r])
    /\ fetchResult'[r].success

\* C31: the fetcher creates the session directory and writes the geometry
\* file only after a success response. It returns success only once the body
\* is on disk at <work dir>/<session id>/<last path segment of the URL>; on a
\* non-success response nothing is created or written; on a malformed URL no
\* request is issued and nothing is created or written.
C31_FetchFrame ==
    /\ [](\A r \in Arrived :
            /\ (~IsPending(fetchResult[r]) /\ fetchResult[r].success) =>
                  /\ ResponseOk(io[r].status)
                  /\ io[r].fetches = 1
                  /\ fetchResult[r].localPath
                        = <<WORK_DIR, req[r].sessionId, "model.3mf">>
                  /\ <<WORK_DIR, req[r].sessionId>> \in dirs
            /\ (io[r].writes > 0 \/ ~DiskUntouched) => ResponseOk(io[r].status)
            /\ FetchRefused(r) => (io[r].writes = 0 /\ DiskUntouched)
            /\ FetchedMalformed(r) =>
                  (io[r].fetches = 0 /\ io[r].writes = 0 /\ DiskUntouched))
    /\ [][\A r \in Requests :
            FetchSucceeds(r) =>
                /\ fetchResult'[r].localPath \in files'
                /\ Dirname(fetchResult'[r].localPath) \in dirs']_vars

\* a success outcome with the geometry on disk under the session directory
C31_Witness ==
    \E r \in Arrived :
        /\ pc[r] = "fetched"
        /\ fetchResult[r].success
        /\ fetchResult[r].localPath = <<WORK_DIR, "sess-1", "model.3mf">>
        /\ fetchResult[r].localPath \in files

\* the directory of the session of request r
SessionDir(r) == <<WORK_DIR, req[r].sessionId>>

\* path p is d or lies below it
Under(p, d) == Len(p) >= Len(d) /\ SubSeq(p, 1, Len(d)) = d

\* two requests are in the service with different session ids
DistinctSessions ==
    /\ Arrived = Requests
    /\ req["r1"].sessionId # req["r2"].sessionId

\* every path request r has written to, read from or removed is under its
\* session directory
OwnPaths(r) ==
    /\ (FetchReturned(r) /\ fetchResult[r].success)
          => Under(fetchResult[r].localPath, SessionDir(r))
    /\ local[r].outputDir # <<>> => Under(local[r].outputDir, SessionDir(r))
    /\ proc[r].state # "none" => Under(proc[r].dir, SessionDir(r))
    /\ ~IsPending(renderResult[r]) =>
          \A i \in DOMAIN renderResult[r].images :
              Under(renderResult[r].images[i].path, SessionDir(r))
    /\ \A i \in DOMAIN local[r].artifacts :
          Under(local[r].artifacts[i].base64.of, SessionDir(r))

\* everything on disk belongs to the session of a request in the service
DiskPartitioned ==
    /\ \A f \in files : \E r \in Arrived : Under(f, SessionDir(r))
    /\ \A d \in dirs : d = <<WORK_DIR>> \/ \E r \in Arrived : Under(d, SessionDir(r))

\* request r can still be brought to its envelope, as it can when alone,
\* unless its own spawn is what ended the service
CanBeAnswered(r) ==
    pc[r] \notin {"idle", "done"} => (alive \/ proc[r].state = "failed")

\* the requests keep to their own session directories
SessionPathsSeparate ==
    DiskPartitioned /\ \A r \in Requests : OwnPaths(r)

\* C32: for two concurrent requests with different session ids every file or
\* directory a request creates, reads or removes lies under its own session
\* directory, and under every interleaving each request returns the envelope
\* it returns when run alone.
C32_SessionsIndependent ==
    DistinctSessions =>
        /\ SessionPathsSeparate
        /\ \A r \in Requests : CanBeAnswered(r)

\* two requests are in the service with the same session id
SameSession ==
    /\ Arrived = Requests
    /\ req["r1"].sessionId = req["r2"].sessionId

\* the frames request o was given by its render step and has not yet read
UnreadFrames(o) ==
    IF pc[o] = "rendered" /\ renderResult[o].success
    THEN {renderResult[o].images[i].path : i \in DOMAIN renderResult[o].images}
    ELSE {}

\* request o holds frames that are no longer on disk
Robbed(o) == \E f \in UnreadFrames(o) : f \notin files

\* the step in which the handler of r removes its output directory
RemovesOutputDir(r) ==
    /\ io'[r].removals = io[r].removals + 1
    /\ local[r].outputDir \in dirs
    /\ local[r].outputDir \notin dirs'

\* the step in which r writes its geometry over the file the running engine
\* of o was started on
OverwritesUnder(r, o) ==
    /\ r # o
    /\ FetchSucceeds(r)
    /\ proc[o].state = "running" /\ pc[o] = "awaitRender"
    /\ fetchResult[o].localPath = fetchResult'[r].localPath

\* C33: session-id collisions are neither enforced nor detected. Two requests
\* with the same session id and file name get the same local path and the
\* same output directory; one writes its geometry over the file while the
\* other's engine is rendering from it, and the engine goes on; one's cleanup
\* removes the frames the other has not yet read, and the other still holds
\* them in its result.
C33_CollisionsUndetected ==
    /\ [](SameSession =>
            /\ (\A r \in Requests : FetchReturned(r) /\ fetchResult[r].success)
                  => fetchResult["r1"].localPath = fetchResult["r2"].localPath
            /\ (\A r \in Requests : local[r].outputDir # <<>>)
                  => local["r1"].outputDir = local["r2"].outputDir)
    /\ [][\A r, o \in Requests :
            OverwritesUnder(r, o) =>
                /\ fetchResult'[r].localPath \in files
                /\ files' = files
                /\ proc'[o] = proc[o] /\ pc'[o] = pc[o]]_vars
    /\ [][\A r, o \in Requests :
            (r # o /\ RemovesOutputDir(r)
                   /\ local[o].outputDir = local[r].outputDir) =>
                /\ \A f \in UnreadFrames(o) : f \notin files'
                /\ renderResult'[o] = renderResult[o]
                /\ pc'[o] = pc[o]]_vars

\* one request has answered and removed the output directory while the other
\* still holds frames in it that it has not read
C33_Witness ==
    \E r, o \in Requests :
        /\ r # o /\ SameSession
        /\ pc[r] = "done" /\ io[r].removals = 1
        /\ Len(response[r]) = 1 /\ response[r][1].ok
        /\ local[o].outputDir = local[r].outputDir
        /\ Robbed(o)

\* the success envelope of request r as its handler builds it before the
\* removal is tried
BuiltEnvelope(r) ==
    IF req[r].op = "validate"
    THEN ValidateSuccessEnvelope(req[r].part, local[r].artifacts,
                                 parseVisionResponse(local[r].visionResult.text),
                                 local[r].visionResult.tokensUsed)
    ELSE RenderSuccessEnvelope(
             req[r].part, local[r].artifacts,
             [i \in DOMAIN renderResult[r].images |->
                 RenderedView(req[r].part, renderResult[r].images[i])],
             local[r].views)

\* C34: removal of the render output directory is attempted only after the
\* envelope has been sent, and the envelope is the same whether the removal
\* succeeds or fails: a cleanup failure never turns a success into a failure
\* and never produces a second response.
C34_CleanupKeepsOutcome ==
    \A r \in Arrived :
        io[r].removals > 0 =>
            /\ io[r].removals = 1
            /\ pc[r] = "done"
            /\ Len(response[r]) = 1
            /\ response[r][1].ok
            /\ response[r][1] = BuiltEnvelope(r)

\* a request answered with success whose output directory could not be
\* removed
C34_Witness ==
    \E r \in Arrived :
        /\ io[r].removals = 1
        /\ local[r].outputDir \in dirs
        /\ Len(response[r]) = 1 /\ response[r][1].ok

\* C35: no request is answered twice. On every path through Validate and
\* RenderPreview (each early return, the success path followed by cleanup,
\* the catch-all) exactly one envelope is written to the response.
C35_AnsweredOnce ==
    \A r \in Requests :
        /\ Len(response[r]) <= 1
        /\ pc[r] = "done" <=> Len(response[r]) = 1
        /\ io[r].caught # <<>> =>
              /\ Len(io[r].caught) = 1
              /\ Len(response[r]) = 1
              /\ ~response[r][1].ok

\* a request that rendered frames and ended in the catch-all has one envelope
C35_Witness ==
    \E r \in Arrived :
        /\ pc[r] = "done"
        /\ ~IsPending(renderResult[r]) /\ renderResult[r].success
        /\ Len(io[r].caught) = 1
        /\ Len(response[r]) = 1

\* C36: a render invocation that launched the engine resolves exactly once,
\* with the outcome of whichever of timer expiry and process close comes
\* first. A close after the timeout does not change the outcome returned;
\* once the close has been handled the timer is cancelled, and no terminate
\* signal is sent to a process that has exited.
C36_ResolvesOnce ==
    /\ [][\A r \in Requests :
            ~IsPending(renderResult[r]) => renderResult'[r] = renderResult[r]]_vars
    /\ [][\A r \in Requests :
            proc[r].state = "closed" =>
                /\ io'[r].signals = io[r].signals
                /\ proc'[r] = proc[r]]_vars
    /\ [](\A r \in Requests :
            /\ io[r].signals <= 1
            /\ proc[r].timer = "fired" =>
                  /\ renderResult[r] = [success |-> FALSE, images |-> <<>>]
                  /\ io[r].signals = 1
            /\ (proc[r].state = "closed" /\ proc[r].timer # "fired" /\ alive) =>
                  /\ proc[r].timer = "cleared"
                  /\ io[r].signals = 0
                  /\ ~proc[r].signalled
                  /\ ~IsPending(renderResult[r])
                  /\ renderResult[r].success
                        = (Len(renderResult[r].images) > 0))

\* the engine closed after the timeout, with a frame on disk, and the outcome
\* is still the timeout's
C36_Witness ==
    \E r \in Arrived :
        /\ proc[r].state = "closed" /\ proc[r].timer = "fired"
        /\ \E v \in Range(proc[r].views) :
              proc[r].dir \o <<PreviewName(v)>> \in files
        /\ renderResult[r] = [success |-> FALSE, images |-> <<>>]

\* C37: every envelope with ok=true, from either operation, carries at least
\* one artifact and no error field, and was produced only after a fetch that
\* succeeded and a render that yielded at least one frame.
C37_SuccessEnvelope ==
    \A r \in Arrived :
        \A i \in DOMAIN response[r] :
            response[r][i].ok =>
                /\ Len(response[r][i].artifacts) >= 1
                /\ "error" \notin DOMAIN response[r][i]
                /\ "error" \notin DOMAIN response[r][i].result
                /\ ~IsPending(fetchResult[r]) /\ fetchResult[r].success
                /\ io[r].status \in 200..299
                /\ ~IsPending(renderResult[r]) /\ renderResult[r].success
                /\ Len(renderResult[r].images) >= 1
                /\ Len(response[r][i].artifacts) = Len(renderResult[r].images)
                /\ io[r].spawns = 1

\* a /validate request answered ok=true with two artifacts
C37_Witness ==
    \E r \in Arrived :
        /\ req[r].op = "validate"
        /\ Len(response[r]) = 1
        /\ response[r][1].ok
        /\ Len(response[r][1].artifacts) = 2
        /\ Len(renderResult[r].images) = 2

\* the failure envelopes of request r written after its render succeeded
LateFailures(r) ==
    {i \in DOMAIN response[r] :
        /\ ~response[r][i].ok
        /\ ~IsPending(renderResult[r])
        /\ renderResult[r].success /\ Len(renderResult[r].images) > 0}

NoKeyMessage == <<"No vision API key provided">>

\* C38: when the backend call or a later step throws after a successful
\* render, the failure envelope has an empty artifact list and tokensUsed 0,
\* although frames were rendered and tokens may have been consumed; of the
\* failures after a successful render only the missing-credential one keeps
\* the rendered artifacts.
C38_LateFailureEnvelope ==
    \A r \in Arrived :
        \A i \in LateFailures(r) :
            LET e == response[r][i] IN
            /\ e.tokensUsed = 0
            /\ IF io[r].caught = <<>>
               THEN /\ req[r].op = "validate"
                    /\ e.error = NoKeyMessage
                    /\ vision[r] = <<>>
                    /\ e.artifacts = local[r].artifacts
                    /\ Len(e.artifacts) = Len(renderResult[r].images)
               ELSE /\ e.artifacts = <<>>
                    /\ e.error = io[r].caught[1]
                    /\ e.error # NoKeyMessage

\* the backend answered and consumed tokens, the handler then threw, and the
\* envelope reports no artifact and no token
C38_Witness ==
    \E r \in Arrived :
        /\ LateFailures(r) # {}
        /\ ~IsPending(local[r].visionResult)
        /\ local[r].visionResult.tokensUsed = 1500
        /\ Len(local[r].artifacts) > 0
        /\ response[r][1].artifacts = <<>>
        /\ response[r][1].tokensUsed = 0

\* the MIME type and the extension an encoding calls for
DeclaredFor(encoding) ==
    IF encoding = "jpeg" THEN [mimeType |-> "image/jpeg", ext |-> ".jpg"]
    ELSE [mimeType |-> "image/png", ext |-> ".png"]

\* artifact a says what its payload is
TrulyLabelled(a) ==
    /\ a.mimeType = DeclaredFor(a.base64.encoding).mimeType
    /\ a.name[Len(a.name)] = DeclaredFor(a.base64.encoding).ext

\* C39: every artifact's declared MIME type and file-name extension match the
\* encoding of its payload (image/jpeg and .jpg for JPEG data, image/png and
\* .png for PNG data), also when the conversion fell back to the raw bytes.
C39_ArtifactLabels ==
    \A r \in Arrived :
        /\ \A i \in DOMAIN local[r].artifacts : TrulyLabelled(local[r].artifacts[i])
        /\ \A k \in DOMAIN response[r] :
              \A i \in DOMAIN response[r][k].artifacts :
                  TrulyLabelled(response[r][k].artifacts[i])

====
